---- MODULE Spec2Model ----
(***************************************************************************)
(* Control plane of the OnSemi AR0234 V4L2 sensor driver (src/ar0234.c).   *)
(*                                                                         *)
(* Every V4L2 entry point (probe, s_stream, set_fmt, s_ctrl, runtime       *)
(* suspend) is one action.  An entry point runs under the device mutex, so *)
(* it is atomic; while it runs it threads a "world" record w through the   *)
(* driver's functions.  w carries the driver struct (ar), the controls of  *)
(* the control handler (ctrl), runtime PM (pm), the power rails (hw), the  *)
(* sensor's register file (dev), the trace of bus and power accesses of    *)
(* the running call (log) and the errno of the last callee (ret).          *)
(***************************************************************************)
EXTENDS Integers, Sequences, FiniteSets, TLC

VARIABLES ar0234,    \* struct ar0234: monochrome, fmt, mode, hw_config, streaming
          ctrl,      \* the v4l2 controls: cur, val (new), minimum, maximum, def, grabbed
          pm,        \* runtime PM of the i2c client: enabled, status, usage
          hw,        \* regulators, extclk, reset GPIO
          dev,       \* sensor register file (registers the driver reads back or replays)
          sd_state,  \* per-file-handle TRY formats and TRY crop
          board,     \* the hardware: chip id of the sensor, CSI2 data lanes wired
          phase,     \* "unbound" | "bound"
          mutex,     \* the device mutex is held
          lockdep,   \* no lock assertion has failed in the last entry point
          log,       \* bus / power accesses issued by the last entry point
          ret,       \* value the last entry point returned
          reply,     \* format the last pad operation handed back
          lastOp,    \* the last entry point and its arguments
          thr        \* the callers of the interleaved model: position and call

vars == <<ar0234, ctrl, pm, hw, dev, sd_state, board, phase, mutex, lockdep,
          log, ret, reply, lastOp, thr>>

----------------------------------------------------------------------------
(* errno values *)
ENOENT == 0 - 2
EIO    == 0 - 5
EBUSY  == 0 - 16
ENOMEM == 0 - 12
ENODEV == 0 - 19
EINVAL == 0 - 22
ERANGE == 0 - 34

(* registers and register values *)
AR0234_REG_CHIP_ID          == 12288   \* 0x3000
AR0234_CHIP_ID              == 2646    \* 0x0a56
AR0234_CHIP_ID_MONO         == 6742    \* 0x1a56
AR0234_REG_RESET            == 12314   \* 0x301A
AR0234_REG_RESET_RESET      == 217     \* 0x00D9
AR0234_REG_RESET_STREAM_OFF == 8280    \* 0x2058
AR0234_REG_RESET_STREAM_ON  == 8284    \* 0x205C
AR0234_FREQ_EXTCLK          == 24000000
AR0234_FREQ_LINK_10BIT      == 450000000
AR0234_FREQ_LINK_8BIT       == 360000000   \* the link frequency of the 8-bit modes
AR0234_REG_SERIAL_FORMAT    == 12718       \* 0x31AE, lane count
LINE_LENGTH_PCK             == 12300   \* 0x300C
AR0234_REG_VTS              == 12298   \* 0x300a
AR0234_VTS_30FPS            == 1220    \* 0x04c4
AR0234_VTS_MAX              == 65535   \* 0xffff
AR0234_REG_EXPOSURE_COARSE  == 12306   \* 0x3012
AR0234_EXPOSURE_MIN         == 4
AR0234_EXPOSURE_STEP        == 1
AR0234_EXPOSURE_DEFAULT     == 1600    \* 0x640
AR0234_REG_ANALOG_GAIN      == 12384   \* 0x3060
AR0234_ANA_GAIN_MIN         == 0
AR0234_ANA_GAIN_MAX         == 232
AR0234_ANA_GAIN_DEFAULT     == 0
AR0234_REG_DIGITAL_GAIN     == 12382   \* 0x305e
AR0234_DGTL_GAIN_MIN        == 256     \* 0x0100
AR0234_DGTL_GAIN_MAX        == 4095    \* 0x0fff
AR0234_DGTL_GAIN_DEFAULT    == 256
AR0234_REG_ORIENTATION      == 12352   \* 0x3040
AR0234_REG_ORIENTATION_HFLIP == 16384  \* BIT(14)
AR0234_REG_ORIENTATION_VFLIP == 32768  \* BIT(15)
AR0234_REG_OUTPUT_DEPTH     == 12716   \* 0x31AC
AR0234_TESTP_COLOUR_MIN     == 0
AR0234_TESTP_COLOUR_MAX     == 1023    \* 0x03ff
AR0234_REG_TEST_PATTERN     == 1536    \* 0x0600
AR0234_REG_TESTP_RED        == 1538    \* 0x0602
AR0234_REG_TESTP_GREENR     == 1540    \* 0x0604
AR0234_REG_TESTP_BLUE       == 1542    \* 0x0606
AR0234_REG_TESTP_GREENB     == 1544    \* 0x0608
DELAY                       == 65535   \* 0xffff pseudo-address
AR0234_XCLR_MIN_DELAY_US    == 6200

(* pads, native and active pixel array, embedded data line *)
IMAGE_PAD    == 0
METADATA_PAD == 1
NUM_PADS     == 2
AR0234_NATIVE_WIDTH       == 1484
AR0234_NATIVE_HEIGHT      == 856
AR0234_PIXEL_ARRAY_LEFT   == 6
AR0234_PIXEL_ARRAY_TOP    == 10
AR0234_PIXEL_ARRAY_WIDTH  == 1920
AR0234_PIXEL_ARRAY_HEIGHT == 1200
AR0234_MD_PADDING_BYTES   == AR0234_PIXEL_ARRAY_WIDTH \div 4
AR0234_EMBEDDED_LINE_WIDTH == AR0234_PIXEL_ARRAY_WIDTH + AR0234_MD_PADDING_BYTES
AR0234_NUM_EMBEDDED_LINES == 2

(* enum ar0234_lane_mode_id, enum ar0234_bit_depth_id *)
AR0234_LANE_MODE_ID_2     == 0
AR0234_LANE_MODE_ID_4     == 1
AR0234_BIT_DEPTH_ID_8BIT  == 0
AR0234_BIT_DEPTH_ID_10BIT == 1
AR0234_BIT_DEPTH_ID_AMOUNT == 2

(* media bus codes (uapi/linux/media-bus-format.h) *)
MEDIA_BUS_FMT_SGRBG10_1X10 == 12298  \* 0x300a
MEDIA_BUS_FMT_SGRBG8_1X8   == 12290  \* 0x3002
MEDIA_BUS_FMT_Y10_1X10     == 8202   \* 0x200a
MEDIA_BUS_FMT_Y8_1X8       == 8193   \* 0x2001
MEDIA_BUS_FMT_SENSOR_DATA  == 28674  \* 0x7002

V4L2_SUBDEV_FORMAT_TRY    == 0
V4L2_SUBDEV_FORMAT_ACTIVE == 1

bayer_codes == <<MEDIA_BUS_FMT_SGRBG10_1X10, MEDIA_BUS_FMT_SGRBG8_1X8>>
mono_codes  == <<MEDIA_BUS_FMT_Y10_1X10, MEDIA_BUS_FMT_Y8_1X8>>
NUM_CODES   == Len(bayer_codes)
link_freq   == <<AR0234_FREQ_LINK_10BIT>>

----------------------------------------------------------------------------
(* Register Sequence Store *)
Reg(a, v) == [address |-> a, val |-> v]

ar0234_reset ==
  << Reg(DELAY, 20), Reg(AR0234_REG_RESET, AR0234_REG_RESET_RESET),
     Reg(DELAY, 200), Reg(12314, 8280) >>

common_init ==
  << Reg(12464, 40), Reg(12398, 36880), Reg(12418, 3), Reg(12352, 0),
     Reg(12752, 0), Reg(12424, 32848), Reg(12438, 640), Reg(12768, 3),
     Reg(16204, 4639), Reg(16206, 4639), Reg(16208, 2945), Reg(12424, 33210),
     Reg(12422, 15618), Reg(16082, 64150), Reg(12672, 33359), Reg(16076, 3394),
     Reg(16076, 3394), Reg(12528, 8835), Reg(12546, 20480), Reg(12468, 17),
     Reg(12474, 30246), Reg(12314, 8284), Reg(12388, 6530) >>

ar0234_1920x1200_config ==
  << Reg(12290, 8), Reg(12292, 8), Reg(12294, 1207), Reg(12296, 1927),
     Reg(LINE_LENGTH_PCK, 612), Reg(12450, 1), Reg(12454, 1) >>

ar0234_1280x800_config ==
  << Reg(12290, 208), Reg(12292, 328), Reg(12294, 1007), Reg(12296, 1607),
     Reg(LINE_LENGTH_PCK, 612), Reg(12450, 1), Reg(12454, 1) >>

ar0234_pll_config_24_900_10bit ==
  << Reg(12330, 5), Reg(12332, 1), Reg(12334, 8), Reg(12336, 150),
     Reg(12342, 10), Reg(12344, 1) >>

ar0234_mipi_config_24_900_10bit ==
  << Reg(12720, 130), Reg(12722, 92), Reg(12724, 16968), Reg(12726, 16984),
     Reg(12728, 36939), Reg(12730, 779), Reg(12732, 3465), Reg(13140, 43) >>

(* struct ar0234_timing: the same entry for every [lane_mode][bit_depth] *)
Timing(llp, fll) == [line_length_pck |-> llp, frame_length_lines_min |-> fll]
TimingTable(t) ==
  [l \in {AR0234_LANE_MODE_ID_2, AR0234_LANE_MODE_ID_4} |->
     [b \in {AR0234_BIT_DEPTH_ID_8BIT, AR0234_BIT_DEPTH_ID_10BIT} |-> t]]

(* Format configs; indices are 1-based, ar0234_formats_24_900[0] is entry 1 *)
ar0234_formats_24_900 ==
  << [width |-> 1920, height |-> 1200,
      crop |-> [left |-> AR0234_PIXEL_ARRAY_LEFT, top |-> AR0234_PIXEL_ARRAY_TOP,
                width |-> 1920, height |-> 1200],
      timing |-> TimingTable(Timing(612, AR0234_VTS_30FPS)),
      reg_sequence |-> ar0234_1920x1200_config],
     [width |-> 1280, height |-> 800,
      crop |-> [left |-> 320, top |-> 200, width |-> 1280, height |-> 800],
      timing |-> TimingTable(Timing(612, AR0234_VTS_30FPS)),
      reg_sequence |-> ar0234_1280x800_config] >>

(* registers of the sensor whose content the model keeps *)
TrackedRegs ==
  {AR0234_REG_RESET, AR0234_REG_ORIENTATION, AR0234_REG_OUTPUT_DEPTH,
   AR0234_REG_VTS, LINE_LENGTH_PCK, AR0234_REG_EXPOSURE_COARSE,
   AR0234_REG_ANALOG_GAIN, AR0234_REG_DIGITAL_GAIN}

(* register file of a sensor that has just been powered *)
DevReset == [r \in TrackedRegs |-> 0]

----------------------------------------------------------------------------
(* small helpers *)
Min(a, b) == IF a < b THEN a ELSE b
Max(a, b) == IF a > b THEN a ELSE b
Abs(a)    == IF a < 0 THEN 0 - a ELSE a
Clamp(v, lo, hi) == IF v < lo THEN lo ELSE IF v > hi THEN hi ELSE v

Ev(op, reg, val, ok) == [op |-> op, reg |-> reg, val |-> val, ok |-> ok]

Powered(w) == w.hw.rails /\ w.hw.clk /\ w.hw.reset

(* "ret = f(...); if (ret) return ret;": the call F runs only when the     *)
(* call before it left no error in w.ret                                   *)
OnOk(w, F(_)) == IF w.ret # 0 THEN w ELSE F(w)

(* a local variable: the value x handed to the rest of the function        *)
With(x, F(_)) == F(x)

usleep_range(w, us) == [w EXCEPT !.log = Append(@, Ev("sleep", 0, us, TRUE))]

----------------------------------------------------------------------------
(* Register I/O port *)

(* the n-th bus access of the call fails: failAt = n fails that access     *)
(* alone, failAt = -k fails every access from the k-th on (the bus is dead)*)
BusFails(w, n) == n = w.failAt \/ (w.failAt < 0 /\ n >= 0 - w.failAt)

(* one 16-bit register read; the transfer fails when the bus fails or the  *)
(* sensor is not powered                                                   *)
ar0234_read_reg(w, reg) ==
  LET n  == w.nacc + 1
      ok == ~BusFails(w, n) /\ Powered(w)
      v  == IF reg = AR0234_REG_CHIP_ID THEN w.chip ELSE w.dev[reg]
  IN  [w EXCEPT !.nacc = n,
                !.log  = Append(@, Ev("read", reg, IF ok THEN v ELSE 0, ok)),
                !.rd   = IF ok THEN v ELSE @,
                !.ret  = IF ok THEN 0 ELSE EIO]

(* one register write of len 2: the value is sent as 16 bits *)
ar0234_write_reg(w, reg, val) ==
  LET n  == w.nacc + 1
      ok == ~BusFails(w, n) /\ Powered(w)
      v  == val % 65536
  IN  [w EXCEPT !.nacc = n,
                !.log  = Append(@, Ev("write", reg, v, ok)),
                !.dev  = IF ok /\ reg \in TrackedRegs
                           THEN [@ EXCEPT ![reg] = v] ELSE @,
                !.ret  = IF ok THEN 0 ELSE EIO]

RECURSIVE ar0234_write_regs_from(_, _, _, _)
ar0234_write_regs_from(w, regs, len, i) ==
  IF i > len THEN [w EXCEPT !.ret = 0]
  ELSE IF regs[i].address = DELAY
       THEN ar0234_write_regs_from(usleep_range(w, regs[i].val * 1000),
                                   regs, len, i + 1)
       ELSE OnOk(ar0234_write_reg(w, regs[i].address, regs[i].val),
                 LAMBDA w1 : ar0234_write_regs_from(w1, regs, len, i + 1))

(* a write of a list that goes on after a failed entry *)
RECURSIVE ar0234_write_regs_nostop_from(_, _, _, _, _)
ar0234_write_regs_nostop_from(w, regs, len, i, err) ==
  IF i > len THEN [w EXCEPT !.ret = err]
  ELSE IF regs[i].address = DELAY
       THEN ar0234_write_regs_nostop_from(usleep_range(w, regs[i].val * 1000),
                                          regs, len, i + 1, err)
       ELSE With(ar0234_write_reg(w, regs[i].address, regs[i].val),
                 LAMBDA w1 :
                   ar0234_write_regs_nostop_from(
                     w1, regs, len, i + 1, IF err # 0 THEN err ELSE w1.ret))

ar0234_write_regs_nostop(w, regs, len) ==
  ar0234_write_regs_nostop_from(w, regs, len, 1, 0)

(* Write a list of registers *)
ar0234_write_regs(w, regs, len) == ar0234_write_regs_from(w, regs, len, 1)

----------------------------------------------------------------------------
(* Runtime PM of the i2c client, as the driver uses it *)

(* a reference handed out whenever runtime PM is enabled *)
pm_runtime_get_if_in_use_any(w) ==
  IF ~w.pm.enabled THEN [w EXCEPT !.ret = EINVAL]
  ELSE [w EXCEPT !.pm.usage = @ + 1, !.ret = 1]

(* pm_runtime_get_if_in_use: -EINVAL while runtime PM is disabled, 1 (and a *)
(* reference) when the device is active and in use, 0 otherwise            *)
pm_runtime_get_if_in_use(w) ==
  IF ~w.pm.enabled THEN [w EXCEPT !.ret = EINVAL]
  ELSE IF w.pm.status = "active" /\ w.pm.usage > 0
       THEN [w EXCEPT !.pm.usage = @ + 1, !.ret = 1]
       ELSE [w EXCEPT !.ret = 0]

(* pm_runtime_put / pm_runtime_put_noidle: drop one reference; the usage   *)
(* count does not go below zero.  The suspend that follows the last put is *)
(* the RuntimeSuspend action.                                              *)
pm_runtime_put(w) == [w EXCEPT !.pm.usage = Max(@ - 1, 0)]
pm_runtime_put_noidle(w) == [w EXCEPT !.pm.usage = Max(@ - 1, 0)]

----------------------------------------------------------------------------
(* Control surface: the controls created by ar0234_init_controls and the   *)
(* parts of the v4l2 control framework the driver relies on                *)

CtrlIds == {"vblank", "hblank", "exposure", "again", "dgain", "hflip", "vflip",
            "test_pattern", "tp_red", "tp_greenr", "tp_blue", "tp_greenb"}

(* order of creation = order of replay; hblank, pixel rate and link        *)
(* frequency are read-only and are skipped by the replay                   *)
CtrlOrder == <<"vblank", "hblank", "exposure", "again", "dgain", "hflip",
               "vflip", "test_pattern", "tp_red", "tp_greenr", "tp_blue",
               "tp_greenb">>
ReadOnlyCtrls == {"hblank"}

Ctrl(mn, mx, df) ==
  [cur |-> df, val |-> df, minimum |-> mn, maximum |-> mx, def |-> df,
   grabbed |-> FALSE]

NoCtrl == [cur |-> 0, val |-> 0, minimum |-> 0, maximum |-> 0, def |-> 0,
           grabbed |-> FALSE]

(* std_validate: integers are clamped to the range (step is 1), booleans   *)
(* are normalised, a menu index outside the range is an error              *)
std_validate_val(id, c) ==
  IF id \in {"hflip", "vflip"} THEN (IF c.val # 0 THEN 1 ELSE 0)
  ELSE IF id = "test_pattern" THEN c.val
  ELSE Clamp(c.val, c.minimum, c.maximum)

std_validate_ret(id, c) ==
  IF id = "test_pattern" /\ (c.val < c.minimum \/ c.val > c.maximum)
  THEN ERANGE ELSE 0

(* __v4l2_ctrl_grab *)
v4l2_ctrl_grab(w, id, grabbed) == [w EXCEPT !.ctrl[id].grabbed = grabbed]

RECURSIVE ar0234_set_ctrl(_, _)
RECURSIVE ar0234_adjust_exposure_range(_)
RECURSIVE v4l2_ctrl_modify_range(_, _, _, _, _)
RECURSIVE v4l2_set_ctrl(_, _)

(* set_ctrl + try_or_set_cluster of the framework: ctrl[id].val holds the   *)
(* requested value; it is validated, refused when the control is grabbed,  *)
(* dropped when nothing changes, handed to s_ctrl, and made current only   *)
(* when s_ctrl succeeds                                                    *)
v4l2_set_ctrl(w, id) ==
  IF std_validate_ret(id, w.ctrl[id]) # 0
  THEN [w EXCEPT !.ret = std_validate_ret(id, w.ctrl[id])]
  ELSE With([w EXCEPT !.ctrl[id].val = std_validate_val(id, w.ctrl[id])],
            LAMBDA w1 :
              IF w1.ctrl[id].grabbed THEN [w1 EXCEPT !.ret = EBUSY]
              ELSE IF w1.ctrl[id].val = w1.ctrl[id].cur THEN [w1 EXCEPT !.ret = 0]
              ELSE OnOk(ar0234_set_ctrl(w1, id),
                        LAMBDA w2 : [w2 EXCEPT !.ctrl[id].cur = w2.ctrl[id].val]))

(* __v4l2_ctrl_s_ctrl *)
v4l2_ctrl_s_ctrl(w, id, val) == v4l2_set_ctrl([w EXCEPT !.ctrl[id].val = val], id)

(* __v4l2_ctrl_modify_range: install the range, clamp the current value    *)
(* into it and set the control when the clamp changed the value            *)
v4l2_ctrl_modify_range(w, id, mn, mx, df) ==
  IF mn > mx \/ df < mn \/ df > mx THEN [w EXCEPT !.ret = ERANGE]
  ELSE With([w EXCEPT !.ctrl[id].minimum = mn, !.ctrl[id].maximum = mx,
                      !.ctrl[id].def = df, !.ctrl[id].val = w.ctrl[id].cur],
            LAMBDA w1 :
              IF std_validate_val(id, w1.ctrl[id]) # w1.ctrl[id].cur
              THEN v4l2_set_ctrl([w1 EXCEPT !.ctrl[id].val =
                                     std_validate_val(id, w1.ctrl[id])], id)
              ELSE [w1 EXCEPT !.ret = 0])

(* Honour the VBLANK limits when setting exposure. *)
ar0234_adjust_exposure_range(w) ==
  With(ar0234_formats_24_900[w.ar.mode.format].height
         + w.ctrl["vblank"].val - AR0234_EXPOSURE_MIN,
       LAMBDA exposure_max :
         v4l2_ctrl_modify_range(w, "exposure", w.ctrl["exposure"].minimum,
                                exposure_max,
                                Min(exposure_max, w.ctrl["exposure"].val)))

(* a handler whose test pattern cases write their registers *)
ar0234_set_ctrl_reg_testp(w, id) ==
  CASE id = "test_pattern" ->
         ar0234_write_reg(w, AR0234_REG_TEST_PATTERN, w.ctrl[id].val)
    [] id = "tp_red"    -> ar0234_write_reg(w, AR0234_REG_TESTP_RED, w.ctrl[id].val)
    [] id = "tp_greenr" -> ar0234_write_reg(w, AR0234_REG_TESTP_GREENR, w.ctrl[id].val)
    [] id = "tp_blue"   -> ar0234_write_reg(w, AR0234_REG_TESTP_BLUE, w.ctrl[id].val)
    [] id = "tp_greenb" -> ar0234_write_reg(w, AR0234_REG_TESTP_GREENB, w.ctrl[id].val)
    [] id = "vblank"    ->
         ar0234_write_reg(w, AR0234_REG_VTS,
                          ar0234_formats_24_900[w.ar.mode.format].height + w.ctrl[id].val)
    [] id = "exposure"  -> ar0234_write_reg(w, AR0234_REG_EXPOSURE_COARSE, w.ctrl[id].val)
    [] id = "again"     -> ar0234_write_reg(w, AR0234_REG_ANALOG_GAIN, w.ctrl[id].val)
    [] id = "dgain"     -> ar0234_write_reg(w, AR0234_REG_DIGITAL_GAIN, w.ctrl[id].val)
    [] id \in {"hflip", "vflip"} ->
         OnOk(ar0234_read_reg(w, AR0234_REG_ORIENTATION),
              LAMBDA w1 :
                ar0234_write_reg(w1, AR0234_REG_ORIENTATION,
                  (w1.rd % AR0234_REG_ORIENTATION_HFLIP)
                  + (IF w1.ctrl["hflip"].val # 0 THEN AR0234_REG_ORIENTATION_HFLIP ELSE 0)
                  + (IF w1.ctrl["vflip"].val # 0 THEN AR0234_REG_ORIENTATION_VFLIP ELSE 0)))
    [] OTHER -> [w EXCEPT !.ret = EINVAL]

(* the register access of one control; flips read-modify-write the         *)
(* orientation register with the new values of both flip controls          *)
ar0234_set_ctrl_reg(w, id) ==
  CASE id = "again"    -> ar0234_write_reg(w, AR0234_REG_ANALOG_GAIN, w.ctrl[id].val)
    [] id = "exposure" -> ar0234_write_reg(w, AR0234_REG_EXPOSURE_COARSE, w.ctrl[id].val)
    [] id = "dgain"    -> ar0234_write_reg(w, AR0234_REG_DIGITAL_GAIN, w.ctrl[id].val)
    [] id \in {"hflip", "vflip"} ->
         OnOk(ar0234_read_reg(w, AR0234_REG_ORIENTATION),
              LAMBDA w1 :
                ar0234_write_reg(w1, AR0234_REG_ORIENTATION,
                  (w1.rd % AR0234_REG_ORIENTATION_HFLIP)
                  + (IF w1.ctrl["hflip"].val # 0 THEN AR0234_REG_ORIENTATION_HFLIP ELSE 0)
                  + (IF w1.ctrl["vflip"].val # 0 THEN AR0234_REG_ORIENTATION_VFLIP ELSE 0)))
    [] id = "vblank"   ->
         ar0234_write_reg(w, AR0234_REG_VTS,
                          ar0234_formats_24_900[w.ar.mode.format].height + w.ctrl[id].val)
    [] id \in {"test_pattern", "tp_red", "tp_greenr", "tp_blue", "tp_greenb"} ->
         [w EXCEPT !.ret = 0]
    [] OTHER -> [w EXCEPT !.ret = EINVAL]

(* a replay that hands no control to the handler *)
v4l2_ctrl_handler_setup_none(w) == [w EXCEPT !.ret = 0]

(* a handler that keeps the reference it took *)
ar0234_set_ctrl_noput(w, id) ==
  With(pm_runtime_get_if_in_use(
         IF id = "vblank" THEN ar0234_adjust_exposure_range(w) ELSE w),
       LAMBDA w2 : IF w2.ret = 0 THEN w2 ELSE ar0234_set_ctrl_reg(w2, id))

(* a handler that writes the register whatever the power state *)
ar0234_set_ctrl_nopm(w, id) ==
  ar0234_set_ctrl_reg(IF id = "vblank" THEN ar0234_adjust_exposure_range(w) ELSE w,
                      id)

(* the s_ctrl handler *)
ar0234_set_ctrl(w, id) ==
  With(pm_runtime_get_if_in_use(
         IF id = "vblank" THEN ar0234_adjust_exposure_range(w) ELSE w),
       LAMBDA w2 :
         IF w2.ret = 0 THEN w2
         ELSE With(ar0234_set_ctrl_reg(w2, id),
                   LAMBDA w3 : [pm_runtime_put(w3) EXCEPT !.ret = w3.ret]))

(* __v4l2_ctrl_handler_setup: hand the current value of every writable     *)
(* control to s_ctrl, in creation order, stopping at the first error       *)
RECURSIVE v4l2_ctrl_handler_setup_from(_, _)
v4l2_ctrl_handler_setup_from(w, i) ==
  IF i > Len(CtrlOrder) THEN [w EXCEPT !.ret = 0]
  ELSE IF CtrlOrder[i] \in ReadOnlyCtrls
       THEN v4l2_ctrl_handler_setup_from(w, i + 1)
       ELSE OnOk(ar0234_set_ctrl([w EXCEPT !.ctrl[CtrlOrder[i]].val =
                                              w.ctrl[CtrlOrder[i]].cur],
                                 CtrlOrder[i]),
                 LAMBDA w1 : v4l2_ctrl_handler_setup_from(w1, i + 1))

v4l2_ctrl_handler_setup(w) == v4l2_ctrl_handler_setup_from(w, 1)

----------------------------------------------------------------------------
(* Power/clock management functions *)

(* w.pfail names the step of the power sequence that fails in this call,   *)
(* "none" when the regulators and the clock both come up                   *)
regulator_bulk_enable(w) ==
  IF w.pfail = "regulator"
  THEN [w EXCEPT !.log = Append(@, Ev("regulator", 0, 1, FALSE)), !.ret = ENODEV]
  ELSE [w EXCEPT !.log = Append(@, Ev("regulator", 0, 1, TRUE)),
                 !.hw.rails = TRUE, !.ret = 0]

regulator_bulk_disable(w) ==
  [w EXCEPT !.log = Append(@, Ev("regulator", 0, 0, TRUE)), !.hw.rails = FALSE,
            !.dev = DevReset]

clk_prepare_enable(w) ==
  IF w.pfail = "clk"
  THEN [w EXCEPT !.log = Append(@, Ev("clk", 0, 1, FALSE)), !.ret = ENODEV]
  ELSE [w EXCEPT !.log = Append(@, Ev("clk", 0, 1, TRUE)),
                 !.hw.clk = TRUE, !.ret = 0]

clk_disable_unprepare(w) ==
  [w EXCEPT !.log = Append(@, Ev("clk", 0, 0, TRUE)), !.hw.clk = FALSE]

gpiod_set_value_cansleep(w, value) ==
  [w EXCEPT !.log = Append(@, Ev("gpio", 0, value, TRUE)),
            !.hw.reset = (value # 0)]

(* ar0234_power_on returning from a failed clock enable without reg_off *)
ar0234_power_on_noregoff(w) ==
  OnOk(regulator_bulk_enable(w),
       LAMBDA w1 :
         With(clk_prepare_enable(w1),
              LAMBDA w2 :
                IF w2.ret # 0 THEN w2
                ELSE [usleep_range(gpiod_set_value_cansleep(w2, 1),
                                   AR0234_XCLR_MIN_DELAY_US) EXCEPT !.ret = 0]))

ar0234_power_on(w) ==
  OnOk(regulator_bulk_enable(w),
       LAMBDA w1 :
         With(clk_prepare_enable(w1),
              LAMBDA w2 :
                IF w2.ret # 0
                THEN [regulator_bulk_disable(w2) EXCEPT !.ret = w2.ret]   \* reg_off
                ELSE [usleep_range(gpiod_set_value_cansleep(w2, 1),
                                   AR0234_XCLR_MIN_DELAY_US) EXCEPT !.ret = 0]))

ar0234_power_off(w) ==
  [clk_disable_unprepare(regulator_bulk_disable(gpiod_set_value_cansleep(w, 0)))
     EXCEPT !.ret = 0]

(* pm_runtime_get_sync: take a reference and resume (power on) a suspended *)
(* device; 1 when the device was already active                            *)
pm_runtime_get_sync(w) ==
  IF w.pm.status = "active" THEN [w EXCEPT !.pm.usage = @ + 1, !.ret = 1]
  ELSE OnOk(ar0234_power_on([w EXCEPT !.pm.usage = @ + 1]),
            LAMBDA w2 : [w2 EXCEPT !.pm.status = "active"])

----------------------------------------------------------------------------
(* Device mutex *)
mutex_lock(w)   == [w EXCEPT !.mutex = TRUE]
mutex_unlock(w) == [w EXCEPT !.mutex = FALSE]
lockdep_assert_held(w) == [w EXCEPT !.lockdep = @ /\ w.mutex]

----------------------------------------------------------------------------
(* Capability matrix: format codes and frame sizes *)

ar0234_get_codes(w) == IF w.ar.monochrome THEN mono_codes ELSE bayer_codes

(* index of code in codes, NUM_CODES + 1 when it is absent *)
RECURSIVE CodeIndex(_, _, _)
CodeIndex(codes, code, i) ==
  IF i > NUM_CODES THEN i
  ELSE IF codes[i] = code THEN i ELSE CodeIndex(codes, code, i + 1)

(* the value ar0234_get_format_code returns: the requested code when the   *)
(* sensor supports it, else the first (10-bit) code                        *)
ar0234_get_format_code(w, code) ==
  LET codes == ar0234_get_codes(w)
      i     == CodeIndex(codes, code, 1)
  IN  IF i > NUM_CODES THEN codes[1] ELSE codes[i]

(* ar0234_get_bit_depth_id: bit depth ids are 0-based indices into codes;  *)
(* an unknown code leaves the bit depth alone (-ENOENT, ignored by caller) *)
ar0234_get_bit_depth_id(w, code) ==
  LET i == CodeIndex(ar0234_get_codes(w), code, 1)
  IN  IF i > AR0234_BIT_DEPTH_ID_AMOUNT THEN [w EXCEPT !.ret = ENOENT]
      ELSE [w EXCEPT !.ar.mode.bit_depth = i - 1, !.ret = 0]

ar0234_get_timing(w) ==
  ar0234_formats_24_900[w.ar.mode.format]
     .timing[w.ar.hw_config.lane_mode][w.ar.mode.bit_depth]

INT_MAX == 2147483647

(* v4l2_find_nearest_size: the entry with the least |dw| + |dh|; an entry  *)
(* replaces the best so far unless its error is larger, an exact match     *)
(* ends the search                                                         *)
RECURSIVE v4l2_find_nearest_size_from(_, _, _, _, _, _)
v4l2_find_nearest_size_from(array, width, height, i, best, min_error) ==
  IF i > Len(array) THEN best
  ELSE LET error == Abs(array[i].width - width) + Abs(array[i].height - height)
       IN  IF error > min_error
           THEN v4l2_find_nearest_size_from(array, width, height, i + 1, best, min_error)
           ELSE IF error = 0 THEN i
           ELSE v4l2_find_nearest_size_from(array, width, height, i + 1, i, error)

v4l2_find_nearest_size(array, width, height) ==
  v4l2_find_nearest_size_from(array, width, height, 1, 0, INT_MAX)

Fmt(wd, ht, code) == [width |-> wd, height |-> ht, code |-> code]

ar0234_update_image_pad_format(format, fmt) ==
  [fmt EXCEPT !.width  = ar0234_formats_24_900[format].width,
              !.height = ar0234_formats_24_900[format].height]

ar0234_update_metadata_pad_format(fmt) ==
  Fmt(AR0234_EMBEDDED_LINE_WIDTH, AR0234_NUM_EMBEDDED_LINES,
      MEDIA_BUS_FMT_SENSOR_DATA)

Rect(l, t, wd, ht) == [left |-> l, top |-> t, width |-> wd, height |-> ht]

(* the open of a sub-device file handle: initialise the TRY formats of    *)
(* both pads and the TRY crop rectangle                                    *)
ar0234_open(w) ==
  With(lockdep_assert_held(mutex_lock(w)),
       LAMBDA wl :
         [mutex_unlock(wl) EXCEPT
            !.sd = [open |-> TRUE,
                    fmt  |-> (IMAGE_PAD :> Fmt(ar0234_formats_24_900[1].width,
                                               ar0234_formats_24_900[1].height,
                                               ar0234_get_format_code(wl, 0))
                              @@ METADATA_PAD :>
                                   Fmt(AR0234_EMBEDDED_LINE_WIDTH,
                                       AR0234_NUM_EMBEDDED_LINES,
                                       MEDIA_BUS_FMT_SENSOR_DATA)),
                    crop |-> Rect(AR0234_PIXEL_ARRAY_LEFT, AR0234_PIXEL_ARRAY_TOP,
                                  AR0234_PIXEL_ARRAY_WIDTH,
                                  AR0234_PIXEL_ARRAY_HEIGHT)],
            !.ret = 0])

(* __ar0234_get_pad_format: the TRY format of the handle with its code     *)
(* refreshed, or the active format of the pad                              *)
ar0234_get_pad_format_locked(w, pad, which) ==
  IF pad >= NUM_PADS THEN [w EXCEPT !.ret = EINVAL]
  ELSE IF which = V4L2_SUBDEV_FORMAT_TRY
  THEN With(IF pad = IMAGE_PAD
            THEN [lockdep_assert_held(w) EXCEPT
                    !.sd.fmt[pad].code = ar0234_get_format_code(w, w.sd.fmt[pad].code)]
            ELSE [w EXCEPT !.sd.fmt[pad].code = MEDIA_BUS_FMT_SENSOR_DATA],
            LAMBDA w1 : [w1 EXCEPT !.reply = w1.sd.fmt[pad], !.ret = 0])
  ELSE IF pad = IMAGE_PAD
  THEN [lockdep_assert_held(w) EXCEPT
          !.reply = Fmt(ar0234_formats_24_900[w.ar.mode.format].width,
                        ar0234_formats_24_900[w.ar.mode.format].height,
                        ar0234_get_format_code(w, w.ar.fmt.code)),
          !.ret = 0]
  ELSE [w EXCEPT !.reply = ar0234_update_metadata_pad_format(w.reply), !.ret = 0]

(* the get_fmt pad operation *)
ar0234_get_pad_format(w, pad, which) ==
  mutex_unlock(ar0234_get_pad_format_locked(mutex_lock(w), pad, which))

(* __ar0234_get_pad_crop *)
ar0234_get_pad_crop(w, which) ==
  IF which = V4L2_SUBDEV_FORMAT_TRY THEN w.sd.crop
  ELSE ar0234_formats_24_900[w.ar.mode.format].crop

(* the enum_frame_size pad operation: it takes no lock, and on the image   *)
(* pad it compares the code with what ar0234_get_format_code makes of it   *)
ar0234_enum_frame_size(w, pad, index, code) ==
  IF pad >= NUM_PADS THEN [w EXCEPT !.ret = EINVAL]
  ELSE IF pad = IMAGE_PAD
  THEN IF index >= Len(ar0234_formats_24_900) THEN [w EXCEPT !.ret = EINVAL]
       ELSE With(lockdep_assert_held(w),
                 LAMBDA wl :
                   IF code # ar0234_get_format_code(wl, code)
                   THEN [wl EXCEPT !.ret = EINVAL]
                   ELSE [wl EXCEPT !.reply = Fmt(ar0234_formats_24_900[index + 1].width,
                                                 ar0234_formats_24_900[index + 1].height,
                                                 code),
                                   !.ret = 0])
  ELSE IF code # MEDIA_BUS_FMT_SENSOR_DATA \/ index > 0
       THEN [w EXCEPT !.ret = EINVAL]
       ELSE [w EXCEPT !.reply = Fmt(AR0234_EMBEDDED_LINE_WIDTH,
                                    AR0234_NUM_EMBEDDED_LINES, code),
                      !.ret = 0]

(* the get_selection pad operation *)
ar0234_get_selection(w, target, which) ==
  CASE target = "CROP" ->
         [mutex_unlock(mutex_lock(w)) EXCEPT
            !.reply = ar0234_get_pad_crop(w, which), !.ret = 0]
    [] target = "NATIVE_SIZE" ->
         [w EXCEPT !.reply = Rect(0, 0, AR0234_NATIVE_WIDTH, AR0234_NATIVE_HEIGHT),
                   !.ret = 0]
    [] target \in {"CROP_DEFAULT", "CROP_BOUNDS"} ->
         [w EXCEPT !.reply = Rect(AR0234_PIXEL_ARRAY_LEFT, AR0234_PIXEL_ARRAY_TOP,
                                  AR0234_PIXEL_ARRAY_WIDTH,
                                  AR0234_PIXEL_ARRAY_HEIGHT),
                   !.ret = 0]
    [] OTHER -> [w EXCEPT !.ret = EINVAL]

----------------------------------------------------------------------------
(* Timing constraint engine *)

ar0234_set_framing_limits(w) ==
  LET format == ar0234_formats_24_900[w.ar.mode.format]
      timing == ar0234_get_timing(w)
      vdef   == timing.frame_length_lines_min - format.height
      (* Update limits and set FPS to default *)
      w1 == v4l2_ctrl_modify_range(w, "vblank", vdef,
                                   AR0234_VTS_MAX - format.height, vdef)
      (* Setting this will adjust the exposure limits as well *)
      w2 == v4l2_ctrl_s_ctrl(w1, "vblank", vdef)
      hblank == timing.line_length_pck - format.width
      w3 == v4l2_ctrl_modify_range(w2, "hblank", hblank, hblank, hblank)
  IN  v4l2_ctrl_s_ctrl(w3, "hblank", hblank)

(* a set_fmt that echoes the new format and keeps the old mode *)
ar0234_set_pad_format_nomode(w, pad, which, fmt) ==
  IF pad >= NUM_PADS THEN [w EXCEPT !.ret = EINVAL]
  ELSE
   LET wl == lockdep_assert_held(mutex_lock(w))
       format == v4l2_find_nearest_size(ar0234_formats_24_900, fmt.width, fmt.height)
       f      == ar0234_update_image_pad_format(
                   format, [fmt EXCEPT !.code = ar0234_get_format_code(wl, fmt.code)])
       w1 == IF pad = IMAGE_PAD
             THEN IF which = V4L2_SUBDEV_FORMAT_TRY
                  THEN [wl EXCEPT !.sd.fmt[pad] = f, !.reply = f]
                  ELSE IF wl.ar.mode.format # format \/ wl.ar.fmt.code # f.code
                       THEN [ar0234_set_framing_limits(
                               ar0234_get_bit_depth_id([wl EXCEPT !.ar.fmt = f], f.code))
                             EXCEPT !.reply = f]
                       ELSE [wl EXCEPT !.reply = f]
             ELSE IF which = V4L2_SUBDEV_FORMAT_TRY
                  THEN [wl EXCEPT !.sd.fmt[pad] = fmt, !.reply = fmt]
                  ELSE [wl EXCEPT !.reply = ar0234_update_metadata_pad_format(fmt)]
   IN  [mutex_unlock(w1) EXCEPT !.ret = 0]

(* a set_fmt that does not look at the context: a TRY request commits *)
ar0234_set_pad_format_nowhich(w, pad, which, fmt) ==
  IF pad >= NUM_PADS THEN [w EXCEPT !.ret = EINVAL]
  ELSE
   LET wl == lockdep_assert_held(mutex_lock(w))
       format == v4l2_find_nearest_size(ar0234_formats_24_900, fmt.width, fmt.height)
       f      == ar0234_update_image_pad_format(
                   format, [fmt EXCEPT !.code = ar0234_get_format_code(wl, fmt.code)])
       w1 == IF pad # IMAGE_PAD
             THEN [wl EXCEPT !.reply = ar0234_update_metadata_pad_format(fmt)]
             ELSE IF wl.ar.mode.format # format \/ wl.ar.fmt.code # f.code
                  THEN [ar0234_set_framing_limits(
                          ar0234_get_bit_depth_id(
                            [wl EXCEPT !.ar.fmt = f, !.ar.mode.format = format], f.code))
                        EXCEPT !.reply = f]
                  ELSE [wl EXCEPT !.reply = f]
   IN  [mutex_unlock(w1) EXCEPT !.ret = 0]

(* a set_fmt that applies every active request, changed or not *)
ar0234_set_pad_format_always(w, pad, which, fmt) ==
  IF pad >= NUM_PADS THEN [w EXCEPT !.ret = EINVAL]
  ELSE
   LET wl == lockdep_assert_held(mutex_lock(w))
       format == v4l2_find_nearest_size(ar0234_formats_24_900, fmt.width, fmt.height)
       f      == ar0234_update_image_pad_format(
                   format, [fmt EXCEPT !.code = ar0234_get_format_code(wl, fmt.code)])
       w1 == IF pad = IMAGE_PAD
             THEN IF which = V4L2_SUBDEV_FORMAT_TRY
                  THEN [wl EXCEPT !.sd.fmt[pad] = f, !.reply = f]
                  ELSE [ar0234_set_framing_limits(
                          ar0234_get_bit_depth_id(
                            [wl EXCEPT !.ar.fmt = f, !.ar.mode.format = format], f.code))
                        EXCEPT !.reply = f]
             ELSE IF which = V4L2_SUBDEV_FORMAT_TRY
                  THEN [wl EXCEPT !.sd.fmt[pad] = fmt, !.reply = fmt]
                  ELSE [wl EXCEPT !.reply = ar0234_update_metadata_pad_format(fmt)]
   IN  [mutex_unlock(w1) EXCEPT !.ret = 0]

(* the set_fmt pad operation; fmt is the caller's struct, echoed in w.reply *)
ar0234_set_pad_format(w, pad, which, fmt) ==
  IF pad >= NUM_PADS THEN [w EXCEPT !.ret = EINVAL]
  ELSE
   LET w0 == mutex_lock(w)
       wl == lockdep_assert_held(w0)
       code   == ar0234_get_format_code(wl, fmt.code)
       format == v4l2_find_nearest_size(ar0234_formats_24_900, fmt.width, fmt.height)
       f      == ar0234_update_image_pad_format(format, [fmt EXCEPT !.code = code])
       wa == [wl EXCEPT !.ar.fmt = f, !.ar.mode.format = format]
       w1 == IF pad = IMAGE_PAD
             THEN IF which = V4L2_SUBDEV_FORMAT_TRY
                  THEN [wl EXCEPT !.sd.fmt[pad] = f, !.reply = f]
                  ELSE IF wl.ar.mode.format # format \/ wl.ar.fmt.code # f.code
                       THEN [ar0234_set_framing_limits(
                               ar0234_get_bit_depth_id(wa, f.code))
                             EXCEPT !.reply = f]
                       ELSE [wl EXCEPT !.reply = f]
             ELSE IF which = V4L2_SUBDEV_FORMAT_TRY
                  THEN [w0 EXCEPT !.sd.fmt[pad] = fmt, !.reply = fmt]
                  ELSE (* Only one embedded data mode is supported *)
                       [w0 EXCEPT !.reply = ar0234_update_metadata_pad_format(fmt)]
   IN  [mutex_unlock(w1) EXCEPT !.ret = 0]

----------------------------------------------------------------------------
(* Streaming state machine *)

ar0234_set_framefmt(w) ==
  IF w.ar.fmt.code \in {MEDIA_BUS_FMT_SGRBG10_1X10, MEDIA_BUS_FMT_Y10_1X10}
  THEN ar0234_write_reg(w, AR0234_REG_OUTPUT_DEPTH, 2570)       \* 0x0A0A
  ELSE IF w.ar.fmt.code \in {MEDIA_BUS_FMT_SGRBG8_1X8, MEDIA_BUS_FMT_Y8_1X8}
  THEN ar0234_write_reg(w, AR0234_REG_OUTPUT_DEPTH, 2056)       \* 0x0808
  ELSE [w EXCEPT !.ret = EINVAL]

ar0234_start_streaming(w) ==
  OnOk(OnOk(OnOk(OnOk(
    ar0234_write_regs(w, common_init, Len(common_init)),
    (* Apply default values of current mode *)
    LAMBDA w1 : ar0234_write_regs(w1,
                  ar0234_formats_24_900[w1.ar.mode.format].reg_sequence,
                  Len(ar0234_formats_24_900[w1.ar.mode.format].reg_sequence))),
    LAMBDA w2 : ar0234_set_framefmt(w2)),
    (* Apply customized values from user *)
    LAMBDA w3 : v4l2_ctrl_handler_setup(w3)),
    (* set stream on register *)
    LAMBDA w4 : ar0234_write_reg(w4, AR0234_REG_RESET, AR0234_REG_RESET_STREAM_ON))

(* a failure of the stream-off write is only logged *)
ar0234_stop_streaming(w) ==
  ar0234_write_reg(w, AR0234_REG_RESET, AR0234_REG_RESET_STREAM_OFF)

(* tail of ar0234_set_stream with only one of the two flips grabbed *)
ar0234_set_stream_commit_onegrab(w, enable, r) ==
  [mutex_unlock(v4l2_ctrl_grab([w EXCEPT !.ar.streaming = enable], "vflip", enable))
     EXCEPT !.ret = r]

(* tail of ar0234_set_stream: record the new stream state and lock or      *)
(* unlock the flip controls                                                *)
ar0234_set_stream_commit(w, enable, r) ==
  [mutex_unlock(
     (* vflip and hflip cannot change during streaming *)
     v4l2_ctrl_grab(v4l2_ctrl_grab([w EXCEPT !.ar.streaming = enable],
                                   "vflip", enable),
                    "hflip", enable))
     EXCEPT !.ret = r]

(* the enable branch with a failed start leaving by err_unlock, past the   *)
(* pm_runtime_put of err_rpm_put                                           *)
ar0234_set_stream_on_noput(w) ==
  With(pm_runtime_get_sync(w),
       LAMBDA wg :
         IF wg.ret < 0 THEN [pm_runtime_put_noidle(wg) EXCEPT !.ret = wg.ret]
         ELSE ar0234_start_streaming(wg))

(* the enable branch of ar0234_set_stream with its error labels: resume,   *)
(* program and start the sensor; a failed resume drops the reference with  *)
(* put_noidle, a failed start with pm_runtime_put (err_rpm_put)            *)
ar0234_set_stream_on(w) ==
  With(pm_runtime_get_sync(w),
       LAMBDA wg :
         IF wg.ret < 0 THEN [pm_runtime_put_noidle(wg) EXCEPT !.ret = wg.ret]
         ELSE With(ar0234_start_streaming(wg),
                   LAMBDA ws :
                     IF ws.ret # 0 THEN [pm_runtime_put(ws) EXCEPT !.ret = ws.ret]
                     ELSE ws))

(* the disable branch handing on the result of the stream-off write *)
ar0234_set_stream_off_checked(w) ==
  With(ar0234_stop_streaming(w), LAMBDA ws : [pm_runtime_put(ws) EXCEPT !.ret = ws.ret])

(* the disable branch of ar0234_set_stream: ar0234_stop_streaming is void, *)
(* ret keeps its initial 0                                                 *)
ar0234_set_stream_off(w) ==
  [pm_runtime_put(ar0234_stop_streaming(w)) EXCEPT !.ret = 0]

(* ar0234_set_stream without the test of the state already held *)
ar0234_set_stream_always(w, enable) ==
  With(IF enable THEN ar0234_set_stream_on(mutex_lock(w))
                 ELSE ar0234_set_stream_off(mutex_lock(w)),
       LAMBDA wb : IF wb.ret # 0 THEN mutex_unlock(wb)
                   ELSE ar0234_set_stream_commit(wb, enable, wb.ret))

(* ar0234_set_stream returning from a failed start without err_unlock *)
ar0234_set_stream_nounlock(w, enable) ==
  IF w.ar.streaming = enable THEN [mutex_unlock(mutex_lock(w)) EXCEPT !.ret = 0]
  ELSE With(IF enable THEN ar0234_set_stream_on(mutex_lock(w))
                      ELSE ar0234_set_stream_off(mutex_lock(w)),
            LAMBDA wb : IF wb.ret # 0 THEN wb
                        ELSE ar0234_set_stream_commit(wb, enable, wb.ret))

ar0234_set_stream(w, enable) ==
  IF w.ar.streaming = enable THEN [mutex_unlock(mutex_lock(w)) EXCEPT !.ret = 0]
  ELSE With(IF enable THEN ar0234_set_stream_on(mutex_lock(w))
                      ELSE ar0234_set_stream_off(mutex_lock(w)),
            LAMBDA wb : IF wb.ret # 0 THEN mutex_unlock(wb)
                        ELSE ar0234_set_stream_commit(wb, enable, wb.ret))

----------------------------------------------------------------------------
(* Bring-up *)

(* ar0234_identify_module without the comparison against the two chip ids *)
ar0234_identify_module_anyid(w) ==
  OnOk(ar0234_read_reg(w, AR0234_REG_CHIP_ID),
       LAMBDA w1 : IF w1.rd = AR0234_CHIP_ID_MONO
                   THEN [w1 EXCEPT !.ar.monochrome = TRUE, !.ret = 0]
                   ELSE [w1 EXCEPT !.ret = 0])

(* Verify chip ID *)
ar0234_identify_module(w) ==
  LET w1 == ar0234_read_reg(w, AR0234_REG_CHIP_ID)
  IN  IF w1.ret # 0 THEN w1
      ELSE IF w1.rd # AR0234_CHIP_ID /\ w1.rd # AR0234_CHIP_ID_MONO
           THEN [w1 EXCEPT !.ret = EIO]
      ELSE IF w1.rd = AR0234_CHIP_ID_MONO
           THEN [w1 EXCEPT !.ar.monochrome = TRUE, !.ret = 0]
      ELSE [w1 EXCEPT !.ret = 0]

ar0234_set_default_format(w) ==
  [w EXCEPT !.ar.fmt = Fmt(ar0234_formats_24_900[1].width,
                           ar0234_formats_24_900[1].height,
                           ar0234_get_codes(w)[1]),
            !.ar.mode.format = 1,
            !.ar.mode.bit_depth = AR0234_BIT_DEPTH_ID_10BIT]

(* Initialize control handlers; ctrl_err is the handler's error after the  *)
(* controls were created                                                   *)
(* v4l2_ctrl_handler_free: the controls of the handler are gone *)
v4l2_ctrl_handler_free(w) ==
  [w EXCEPT !.ctrl = [id \in CtrlIds |-> NoCtrl],
            !.log  = Append(@, Ev("ctrl_free", 0, 0, TRUE))]

ar0234_init_controls(w, ctrl_err) ==
  LET timing == ar0234_get_timing(w)
      exposure_max == timing.frame_length_lines_min - AR0234_EXPOSURE_MIN
      exposure_def == IF exposure_max < AR0234_EXPOSURE_DEFAULT
                      THEN exposure_max ELSE AR0234_EXPOSURE_DEFAULT
      created ==
        [id \in CtrlIds |->
           CASE id = "vblank"   -> Ctrl(0, 65535, 0)
             [] id = "hblank"   -> Ctrl(0, 65535, 0)
             [] id = "exposure" ->
                  [Ctrl(AR0234_EXPOSURE_MIN, exposure_max, exposure_def)
                     EXCEPT !.cur = exposure_def, !.val = exposure_def]
             [] id = "again"    -> Ctrl(AR0234_ANA_GAIN_MIN, AR0234_ANA_GAIN_MAX,
                                        AR0234_ANA_GAIN_DEFAULT)
             [] id = "dgain"    -> Ctrl(AR0234_DGTL_GAIN_MIN, AR0234_DGTL_GAIN_MAX,
                                        AR0234_DGTL_GAIN_DEFAULT)
             [] id \in {"hflip", "vflip"} -> Ctrl(0, 1, 0)
             [] id = "test_pattern" -> Ctrl(0, 4, 0)
             [] OTHER -> Ctrl(AR0234_TESTP_COLOUR_MIN, AR0234_TESTP_COLOUR_MAX,
                              AR0234_TESTP_COLOUR_MAX)]
      w1 == [w EXCEPT !.ctrl = created]
  IN  IF ctrl_err
      THEN [v4l2_ctrl_handler_free(w) EXCEPT !.ret = ENOMEM]
      ELSE [mutex_unlock(ar0234_set_framing_limits(mutex_lock(w1)))
              EXCEPT !.ret = 0]

ar0234_free_controls(w) == v4l2_ctrl_handler_free(w)

(* Check the hardware configuration in device tree.  dt.err names the      *)
(* resource lookup that fails, "none" when all succeed.                    *)
ar0234_parse_hw_config(w, dt) ==
  IF dt.err \in {"regulators", "extclk"} THEN [w EXCEPT !.ret = ENODEV]
  ELSE IF dt.err = "endpoint" THEN [w EXCEPT !.ret = EINVAL]
  ELSE IF dt.err = "parse" THEN [w EXCEPT !.ret = 0]   \* ret still holds the 0 of the regulator lookup
  ELSE IF dt.lanes \notin {2, 4} THEN [w EXCEPT !.ret = EINVAL]
  ELSE LET w1 == [w EXCEPT !.ar.hw_config.lane_mode =
                              IF dt.lanes = 2 THEN AR0234_LANE_MODE_ID_2
                                              ELSE AR0234_LANE_MODE_ID_4]
       IN  IF Len(dt.links) = 0 THEN [w1 EXCEPT !.ret = EINVAL]
           ELSE IF Len(dt.links) # 1 \/ dt.links[1] # AR0234_FREQ_LINK_10BIT
                THEN [w1 EXCEPT !.ret = EINVAL]
           ELSE IF dt.extclk # AR0234_FREQ_EXTCLK THEN [w1 EXCEPT !.ret = EINVAL]
           ELSE [w1 EXCEPT !.ret = 0]

(* Enable runtime PM and turn off the device: pm_runtime_set_active,       *)
(* pm_runtime_enable and the synchronous pm_runtime_idle                   *)
ar0234_probe_pm(w) ==
  [ar0234_power_off([w EXCEPT !.pm.enabled = TRUE]) EXCEPT !.pm.status = "suspended"]

(* a probe whose pads and registration failures leave the controls *)
ar0234_probe_nofree(w, dt, ctrl_err, pads_err, register_err) ==
  LET w1 == ar0234_parse_hw_config(w, dt)
      w2 == ar0234_power_on(w1)
      w3 == ar0234_identify_module(w2)
      w4 == [w3 EXCEPT !.ar.mode.format = 1]
      w5 == ar0234_write_reg(w4, AR0234_REG_RESET, AR0234_REG_RESET_STREAM_ON)
      w6 == ar0234_write_reg(usleep_range(w5, 100), AR0234_REG_RESET,
                             AR0234_REG_RESET_STREAM_OFF)
      w7 == ar0234_init_controls(usleep_range(w6, 100), ctrl_err)
      w8 == ar0234_set_default_format(w7)
      error_power_off(x) == [ar0234_power_off(x) EXCEPT !.ret = x.ret]
  IN  IF w1.ret # 0 THEN [w1 EXCEPT !.ret = EINVAL]
      ELSE IF w2.ret # 0 THEN w2
      ELSE IF w3.ret # 0 THEN error_power_off(w3)
      ELSE IF w5.ret < 0 THEN error_power_off(w5)
      ELSE IF w6.ret < 0 THEN error_power_off(w6)
      ELSE IF w7.ret # 0 THEN error_power_off(w7)
      ELSE IF pads_err \/ register_err
           THEN error_power_off([w8 EXCEPT !.ret = ENOMEM])
      ELSE [ar0234_probe_pm(w8) EXCEPT !.ret = 0]

ar0234_probe(w, dt, ctrl_err, pads_err, register_err) ==
  LET w1 == ar0234_parse_hw_config(w, dt)
      w2 == ar0234_power_on(w1)
      w3 == ar0234_identify_module(w2)
      (* Set default mode to max resolution *)
      w4 == [w3 EXCEPT !.ar.mode.format = 1]
      w5 == ar0234_write_reg(w4, AR0234_REG_RESET, AR0234_REG_RESET_STREAM_ON)
      (* put sensor back to standby mode *)
      w6 == ar0234_write_reg(usleep_range(w5, 100), AR0234_REG_RESET,
                             AR0234_REG_RESET_STREAM_OFF)
      w7 == ar0234_init_controls(usleep_range(w6, 100), ctrl_err)
      w8 == ar0234_set_default_format(w7)
      error_power_off(x) == [ar0234_power_off(x) EXCEPT !.ret = x.ret]
  IN  IF w1.ret # 0 THEN [w1 EXCEPT !.ret = EINVAL]
      ELSE IF w2.ret # 0 THEN w2
      ELSE IF w3.ret # 0 THEN error_power_off(w3)
      ELSE IF w5.ret < 0 THEN error_power_off(w5)
      ELSE IF w6.ret < 0 THEN error_power_off(w6)
      ELSE IF w7.ret # 0 THEN error_power_off(w7)
      ELSE IF pads_err \/ register_err
           THEN error_power_off([ar0234_free_controls(w8) EXCEPT !.ret = ENOMEM])
      ELSE [ar0234_probe_pm(w8) EXCEPT !.ret = 0]

----------------------------------------------------------------------------
(* State machine *)

ZeroStruct ==
  [monochrome |-> FALSE, fmt |-> Fmt(0, 0, 0),
   mode |-> [format |-> 0, bit_depth |-> 0],
   hw_config |-> [lane_mode |-> 0],   \* num_data_lanes is only logged
   streaming |-> FALSE]

ZeroSdState ==
  [open |-> FALSE,        \* a file handle (and with it a TRY state) exists
   fmt  |-> [p \in {IMAGE_PAD, METADATA_PAD} |-> Fmt(0, 0, 0)],
   crop |-> [left |-> 0, top |-> 0, width |-> 0, height |-> 0]]

(* inputs the environment can supply *)

(* the boards: the sensor soldered on (its chip id) and the number of CSI2 *)
(* data lanes its device tree node declares                                *)
Boards      == {[chip |-> AR0234_CHIP_ID, lanes |-> 2],
                [chip |-> AR0234_CHIP_ID_MONO, lanes |-> 4],
                [chip |-> 4660, lanes |-> 2]}
ExtclkFreqs == {AR0234_FREQ_EXTCLK, 25000000}
LinkFreqs   == {<<>>, <<AR0234_FREQ_LINK_10BIT>>, <<AR0234_FREQ_LINK_8BIT>>, <<999000000>>,
                <<AR0234_FREQ_LINK_10BIT, AR0234_FREQ_LINK_8BIT>>}
DtErrs      == {"none", "regulators", "extclk", "endpoint", "parse"}
ReqSizes    == {<<1920, 1200>>, <<1280, 800>>}
ReqCodes    == {MEDIA_BUS_FMT_SGRBG8_1X8, MEDIA_BUS_FMT_Y8_1X8}
TrySizes    == {<<1280, 800>>}
TryCodes    == {0}
MetaFmts    == {Fmt(1, 1, 0)}
CtrlVals(id) ==
  CASE id = "vblank"   -> {20, 500}
    [] id = "exposure" -> {1500}
    [] id = "again"    -> {100}
    [] id \in {"hflip", "vflip"} -> {0, 1}
    [] id = "dgain"    -> {512}
    [] id = "test_pattern" -> {0, 2}
    [] id \in {"tp_red", "tp_greenr", "tp_blue", "tp_greenb"} ->
         {0, AR0234_TESTP_COLOUR_MAX}
    [] OTHER -> {}

(* bus accesses of a start that may fail: the first of common_init (1) and *)
(* of the format sequence (24), the data format (31), the first control    *)
(* (32), the read (36) and the write (37) of a flip and the final          *)
(* stream-on (40); 0 is a start without a failure                          *)
StartFailPoints == {0, 1, 24, 31, 32, 36, 37, 40}

World(failAt, pfail) ==
  [ar |-> ar0234, ctrl |-> ctrl, pm |-> pm, hw |-> hw, dev |-> dev,
   sd |-> sd_state, chip |-> board.chip, mutex |-> mutex, lockdep |-> TRUE,
   log |-> <<>>, nacc |-> 0, failAt |-> failAt, pfail |-> pfail,
   rd |-> 0, ret |-> 0, reply |-> Fmt(0, 0, 0)]

Threads == {1, 2}
Idle == [pc |-> "idle", name |-> "none", arg |-> 0, val |-> 0]

CommitWorld(w, op) ==
  /\ ar0234' = w.ar
  /\ ctrl' = w.ctrl
  /\ pm' = w.pm
  /\ hw' = w.hw
  /\ dev' = w.dev
  /\ sd_state' = w.sd
  /\ mutex' = w.mutex
  /\ lockdep' = w.lockdep
  /\ log' = w.log
  /\ ret' = w.ret
  /\ reply' = w.reply
  /\ lastOp' = op
  /\ UNCHANGED board

(* the end of an entry point that ran as one step *)
Commit(w, op) == CommitWorld(w, op) /\ UNCHANGED thr

InitOf(boards) ==
  /\ ar0234 = ZeroStruct
  /\ ctrl = [id \in CtrlIds |-> NoCtrl]
  /\ pm = [enabled |-> FALSE, status |-> "suspended", usage |-> 0]
  /\ hw = [rails |-> FALSE, clk |-> FALSE, reset |-> FALSE]
  /\ dev = DevReset
  /\ sd_state = ZeroSdState
  /\ board \in boards
  /\ phase = "unbound"
  /\ mutex = FALSE
  /\ lockdep = TRUE
  /\ log = <<>>
  /\ ret = 0
  /\ reply = Fmt(0, 0, 0)
  /\ lastOp = [name |-> "none", arg |-> 0]
  /\ thr = [t \in Threads |-> Idle]

Init == InitOf(Boards)

(* one fault at most per bring-up: a resource lookup, a power step, the    *)
(* n-th bus access, the control handler, the pads or the registration      *)
ProbeFaults == {"none", "regulators", "extclk", "endpoint", "parse",
                "regulator_enable", "clk_enable", "bus1", "bus2", "bus3",
                "ctrl", "pads", "register"}

(* a failed probe frees the device object *)
ProbeOf(faults, linkss, extclks) ==
  /\ phase = "unbound"
  /\ \E fault \in faults, links \in linkss, extclk \in extclks :
       LET dt == [err |-> IF fault \in DtErrs THEN fault ELSE "none",
                  lanes |-> board.lanes, links |-> links, extclk |-> extclk]
           failAt == CASE fault = "bus1" -> 1 [] fault = "bus2" -> 2
                       [] fault = "bus3" -> 3 [] OTHER -> 0
           pfail  == CASE fault = "regulator_enable" -> "regulator"
                       [] fault = "clk_enable" -> "clk" [] OTHER -> "none"
           w  == ar0234_probe(World(failAt, pfail), dt, fault = "ctrl",
                              fault = "pads", fault = "register")
           wf == [w EXCEPT !.ar = ZeroStruct,
                           !.ctrl = [id \in CtrlIds |-> NoCtrl]]
       IN  /\ Commit(IF w.ret = 0 THEN w ELSE wf,
                     [name |-> "probe", arg |-> dt])
           /\ phase' = IF w.ret = 0 THEN "bound" ELSE "unbound"

Probe == ProbeOf(ProbeFaults, LinkFreqs, ExtclkFreqs)

(* s_stream(1); a fault <<n, step>> fails the n-th bus access of the call   *)
(* (0: none) or the named power step of the resume ("none": none)          *)
StreamOnOf(faults) ==
  /\ phase = "bound"
  /\ \E fault \in faults :
       /\ Commit(ar0234_set_stream(World(fault[1], fault[2]), TRUE),
                 [name |-> "set_stream", arg |-> TRUE])
       /\ UNCHANGED phase

StreamOn ==
  StreamOnOf(({0} \X {"regulator", "clk"}) \cup (StartFailPoints \X {"none"}))

(* s_stream(0) *)
StreamOff ==
  /\ phase = "bound"
  /\ \E failAt \in {0, 1} :
       /\ Commit(ar0234_set_stream(World(failAt, "none"), FALSE),
                 [name |-> "set_stream", arg |-> FALSE])
       /\ UNCHANGED phase

(* set_fmt with a request <<pad, which, format>>; a TRY request needs an   *)
(* open file handle                                                        *)
SetPadFormatOf(reqs, fails) ==
  /\ phase = "bound"
  /\ \E req \in reqs, failAt \in fails :
       /\ req[2] = V4L2_SUBDEV_FORMAT_TRY => sd_state.open
       /\ Commit(ar0234_set_pad_format(World(failAt, "none"), req[1], req[2], req[3]),
                 [name |-> "set_fmt", arg |-> req])
       /\ UNCHANGED phase

(* VIDIOC_S_EXT_CTRLS with one writable control: the framework refuses a   *)
(* grabbed control before it looks at the value, takes the handler lock    *)
(* (the device mutex) and sets the control                                 *)
SetCtrlOf(ids, fails) ==
  /\ phase = "bound"
  /\ \E id \in ids, failAt \in fails :
       \E val \in CtrlVals(id) :
         /\ Commit(IF ctrl[id].grabbed
                   THEN [World(failAt, "none") EXCEPT !.ret = EBUSY]
                   ELSE mutex_unlock(v4l2_ctrl_s_ctrl(
                          mutex_lock(World(failAt, "none")), id, val)),
                   [name |-> "s_ctrl", arg |-> id])
         /\ UNCHANGED phase

(* set_fmt(ACTIVE) on the image pad *)
SetPadFormat ==
  SetPadFormatOf({IMAGE_PAD} \X {V4L2_SUBDEV_FORMAT_ACTIVE} \X
                 {Fmt(sz[1], sz[2], c) : sz \in ReqSizes, c \in ReqCodes}, {0})

(* the flips, the controls start_streaming locks *)
SetCtrl == SetCtrlOf({"hflip", "vflip"}, {0})

(* the runtime PM core suspends an idle device: SET_RUNTIME_PM_OPS         *)
RuntimeSuspend ==
  /\ phase = "bound"
  /\ pm.enabled /\ pm.status = "active" /\ pm.usage = 0
  /\ Commit([ar0234_power_off(World(0, "none")) EXCEPT !.pm.status = "suspended"],
            [name |-> "runtime_suspend", arg |-> 0])
  /\ UNCHANGED phase

Next == Probe \/ StreamOn \/ StreamOff \/ SetPadFormat \/ SetCtrl \/ RuntimeSuspend

Spec == Init /\ [][Next]_vars

(* The controls that move the exposure limit, on the colour board with a *)
(* fault-free bring-up.                                                    *)
ProbeOk == ProbeOf({"none"}, {<<AR0234_FREQ_LINK_10BIT>>}, {AR0234_FREQ_EXTCLK})

SetCtrlTiming == SetCtrlOf({"vblank", "exposure"}, {0, 1})

(* a start without a fault, or with the first control access failing *)
StreamOnCtrl == StreamOnOf({0, 32} \X {"none"})

NextCtrl == ProbeOk \/ StreamOnCtrl \/ StreamOff \/ SetCtrlTiming \/ RuntimeSuspend

SpecCtrl == InitOf({[chip |-> AR0234_CHIP_ID, lanes |-> 2]}) /\ [][NextCtrl]_vars

(* The pad operations: formats and crop of both pads in TRY and ACTIVE      *)
(* context, in standby and while streaming, on a colour and a monochrome   *)
(* board.                                                                  *)
FmtSizes == {<<1920, 1200>>, <<1280, 800>>, <<1600, 1000>>}
FmtReqs  ==
  ({IMAGE_PAD} \X {V4L2_SUBDEV_FORMAT_TRY, V4L2_SUBDEV_FORMAT_ACTIVE} \X
     {Fmt(sz[1], sz[2], c) : sz \in FmtSizes, c \in ReqCodes})
  \cup ({METADATA_PAD} \X {V4L2_SUBDEV_FORMAT_TRY, V4L2_SUBDEV_FORMAT_ACTIVE} \X MetaFmts)

(* open of a sub-device node: v4l2_subdev_internal_ops.open *)
Open ==
  /\ phase = "bound"
  /\ Commit(ar0234_open(World(0, "none")), [name |-> "open", arg |-> 0])
  /\ UNCHANGED phase

(* set_fmt on either pad in either context *)
SetPadFormatAny == SetPadFormatOf(FmtReqs, {0})

(* get_fmt *)
GetPadFormat ==
  /\ phase = "bound"
  /\ \E pad \in {IMAGE_PAD, METADATA_PAD},
        which \in {V4L2_SUBDEV_FORMAT_TRY, V4L2_SUBDEV_FORMAT_ACTIVE} :
       /\ which = V4L2_SUBDEV_FORMAT_TRY => sd_state.open
       /\ Commit(ar0234_get_pad_format(World(0, "none"), pad, which),
                 [name |-> "get_fmt", arg |-> <<pad, which>>])
       /\ UNCHANGED phase

(* get_selection on the image pad *)
GetSelection ==
  /\ phase = "bound"
  /\ \E target \in {"CROP", "NATIVE_SIZE", "CROP_DEFAULT", "CROP_BOUNDS"},
        which \in {V4L2_SUBDEV_FORMAT_TRY, V4L2_SUBDEV_FORMAT_ACTIVE} :
       /\ which = V4L2_SUBDEV_FORMAT_TRY => sd_state.open
       /\ Commit(ar0234_get_selection(World(0, "none"), target, which),
                 [name |-> "get_selection", arg |-> <<target, which>>])
       /\ UNCHANGED phase

StreamOnOk == StreamOnOf({<<0, "none">>})

NextFmt == ProbeOk \/ Open \/ SetPadFormatAny \/ GetPadFormat \/ GetSelection
             \/ StreamOnOk \/ StreamOff \/ RuntimeSuspend

SpecFmt ==
  InitOf({[chip |-> AR0234_CHIP_ID, lanes |-> 2],
          [chip |-> AR0234_CHIP_ID_MONO, lanes |-> 4]}) /\ [][NextFmt]_vars

(* enum_frame_size: both pads and a pad out of range, every index up to    *)
(* the first out of range, a supported, an unsupported and the metadata    *)
(* code                                                                    *)
EnumFrameSize ==
  /\ phase = "bound"
  /\ \E pad \in {IMAGE_PAD, METADATA_PAD, NUM_PADS},
        index \in 0..Len(ar0234_formats_24_900),
        code \in ReqCodes \cup {MEDIA_BUS_FMT_SENSOR_DATA} :
       /\ Commit(ar0234_enum_frame_size(World(0, "none"), pad, index, code),
                 [name |-> "enum_frame_size", arg |-> <<pad, index, code>>])
       /\ UNCHANGED phase

(* The callers of ar0234_get_format_code: open, get_fmt, set_fmt and        *)
(* enum_frame_size, on a colour and a monochrome board                     *)
NextEnum == ProbeOk \/ Open \/ SetPadFormatAny \/ GetPadFormat \/ EnumFrameSize

SpecEnum ==
  InitOf({[chip |-> AR0234_CHIP_ID, lanes |-> 2],
          [chip |-> AR0234_CHIP_ID_MONO, lanes |-> 4]}) /\ [][NextEnum]_vars

(* The entry points that take the device mutex: open, the pad operations   *)
(* and s_stream on each of its paths: the state already held, a failed     *)
(* resume (err_unlock), a failed start (err_rpm_put) and success           *)
StreamOnPaths == StreamOnOf({<<0, "none">>, <<0, "clk">>, <<24, "none">>})

NextLock == ProbeOk \/ Open \/ SetPadFormatAny \/ GetPadFormat \/ GetSelection
              \/ StreamOnPaths \/ StreamOff \/ RuntimeSuspend

SpecLock == InitOf({[chip |-> AR0234_CHIP_ID, lanes |-> 2]}) /\ [][NextLock]_vars

(* ar0234_write_regs on its own: register lists of up to MaxRegs entries   *)
(* made of a delay and two writes, and the reset list, written to a        *)
(* powered sensor in standby with the n-th write failing                   *)
MaxRegs == 3
RegEntries == {Reg(DELAY, 20), Reg(AR0234_REG_RESET, AR0234_REG_RESET_STREAM_OFF),
               Reg(AR0234_REG_VTS, AR0234_VTS_30FPS)}
RegLists == UNION {[1..n -> RegEntries] : n \in 1..MaxRegs} \cup {ar0234_reset}

WriteRegs ==
  /\ phase = "bound"
  /\ hw.rails /\ hw.clk /\ hw.reset /\ ~ar0234.streaming
  /\ \E regs \in RegLists, failAt \in 0..MaxRegs :
       /\ Commit(ar0234_write_regs(World(failAt, "none"), regs, Len(regs)),
                 [name |-> "write_regs", arg |-> <<regs, failAt>>])
       /\ UNCHANGED phase

NextWriteRegs == ProbeOk \/ StreamOnOk \/ StreamOff \/ WriteRegs \/ RuntimeSuspend

SpecWriteRegs ==
  InitOf({[chip |-> AR0234_CHIP_ID, lanes |-> 2]}) /\ [][NextWriteRegs]_vars

----------------------------------------------------------------------------
(* Concurrent callers.  Two callers enter s_stream, set_fmt(ACTIVE) on the *)
(* image pad and s_ctrl(vblank) at any time; every entry point is cut into *)
(* the steps between which another caller can run: the mutex_lock, the     *)
(* stages of its body and the mutex_unlock.  log accumulates over the      *)
(* steps of a call and is emptied when a caller gets the mutex.            *)

(* the mutex is held: mutex_lock sleeps until it is not *)
mutex_is_locked_never(m) == FALSE
mutex_is_locked(m) == m

(* the world of one step of a caller *)
StepWorld == [World(0, "none") EXCEPT !.log = log, !.ret = ret, !.reply = reply,
                                      !.lockdep = lockdep]

Next_pc(w, pc) == [w |-> w, pc |-> pc]

(* ar0234_set_stream(1) between its mutex_lock and its mutex_unlock:       *)
(* the state test and the resume, the common and the mode registers with   *)
(* the data format, the replay of the controls, the stream-on write with   *)
(* the new state                                                           *)
ar0234_set_stream_on_step(w, pc) ==
  CASE pc = "b1" ->
         IF w.ar.streaming THEN Next_pc([w EXCEPT !.ret = 0], "unlock")
         ELSE With(pm_runtime_get_sync(w),
                   LAMBDA wg :
                     IF wg.ret < 0
                     THEN Next_pc([pm_runtime_put_noidle(wg) EXCEPT !.ret = wg.ret],
                                  "unlock")
                     ELSE Next_pc(wg, "b2"))
    [] pc = "b2" ->
         With(OnOk(OnOk(ar0234_write_regs(w, common_init, Len(common_init)),
                LAMBDA w1 : ar0234_write_regs(w1,
                  ar0234_formats_24_900[w1.ar.mode.format].reg_sequence,
                  Len(ar0234_formats_24_900[w1.ar.mode.format].reg_sequence))),
                LAMBDA w2 : ar0234_set_framefmt(w2)),
              LAMBDA ws :
                IF ws.ret # 0
                THEN Next_pc([pm_runtime_put(ws) EXCEPT !.ret = ws.ret], "unlock")
                ELSE Next_pc(ws, "b3"))
    [] pc = "b3" ->
         With(v4l2_ctrl_handler_setup(w),
              LAMBDA ws :
                IF ws.ret # 0
                THEN Next_pc([pm_runtime_put(ws) EXCEPT !.ret = ws.ret], "unlock")
                ELSE Next_pc(ws, "b4"))
    [] OTHER ->
         With(ar0234_write_reg(w, AR0234_REG_RESET, AR0234_REG_RESET_STREAM_ON),
              LAMBDA ws :
                IF ws.ret # 0
                THEN Next_pc([pm_runtime_put(ws) EXCEPT !.ret = ws.ret], "unlock")
                ELSE Next_pc(v4l2_ctrl_grab(v4l2_ctrl_grab(
                               [ws EXCEPT !.ar.streaming = TRUE],
                               "vflip", TRUE), "hflip", TRUE),
                             "unlock"))

(* ar0234_set_stream(0): the state test and the stream-off write, then the *)
(* put with the new state                                                  *)
ar0234_set_stream_off_step(w, pc) ==
  CASE pc = "b1" ->
         IF ~w.ar.streaming THEN Next_pc([w EXCEPT !.ret = 0], "unlock")
         ELSE Next_pc(ar0234_stop_streaming(w), "b2")
    [] OTHER ->
         Next_pc(v4l2_ctrl_grab(v4l2_ctrl_grab(
                   [pm_runtime_put(w) EXCEPT !.ar.streaming = FALSE, !.ret = 0],
                   "vflip", FALSE), "hflip", FALSE),
                 "unlock")

(* ar0234_set_pad_format(ACTIVE) on the image pad: the new mode, format    *)
(* and bit depth, then the framing limits                                  *)
ar0234_set_pad_format_step(w, pc, fmt) ==
  CASE pc = "b1" ->
         With(ar0234_update_image_pad_format(
                v4l2_find_nearest_size(ar0234_formats_24_900, fmt.width, fmt.height),
                [fmt EXCEPT !.code = ar0234_get_format_code(lockdep_assert_held(w),
                                                            fmt.code)]),
              LAMBDA f :
                IF w.ar.mode.format #
                     v4l2_find_nearest_size(ar0234_formats_24_900, f.width, f.height)
                   \/ w.ar.fmt.code # f.code
                THEN Next_pc(ar0234_get_bit_depth_id(
                               [lockdep_assert_held(w) EXCEPT
                                  !.ar.fmt = f,
                                  !.ar.mode.format =
                                    v4l2_find_nearest_size(ar0234_formats_24_900,
                                                           f.width, f.height),
                                  !.reply = f],
                               f.code),
                             "b2")
                ELSE Next_pc([lockdep_assert_held(w) EXCEPT !.reply = f, !.ret = 0],
                             "unlock"))
    [] OTHER -> Next_pc([ar0234_set_framing_limits(w) EXCEPT !.ret = 0], "unlock")

(* a set of one control under the handler lock: the new value and, for     *)
(* vblank, the exposure range; the reference taken when the sensor is in   *)
(* use; the register access and the put; the new value made current        *)
ar0234_set_ctrl_step(w, pc, id, val) ==
  CASE pc = "b1" ->
         With([w EXCEPT !.ctrl[id].val =
                           std_validate_val(id, [w.ctrl[id] EXCEPT !.val = val])],
              LAMBDA w1 :
                IF w1.ctrl[id].grabbed THEN Next_pc([w1 EXCEPT !.ret = EBUSY], "unlock")
                ELSE IF w1.ctrl[id].val = w1.ctrl[id].cur
                     THEN Next_pc([w1 EXCEPT !.ret = 0], "unlock")
                     ELSE Next_pc(IF id = "vblank"
                                  THEN ar0234_adjust_exposure_range(w1) ELSE w1,
                                  "b2"))
    [] pc = "b2" ->
         With(pm_runtime_get_if_in_use(w),
              LAMBDA w2 : Next_pc(w2, IF w2.ret = 0 THEN "b4" ELSE "b3"))
    [] pc = "b3" ->
         With(ar0234_set_ctrl_reg(w, id),
              LAMBDA w3 : Next_pc([pm_runtime_put(w3) EXCEPT !.ret = w3.ret], "b4"))
    [] OTHER ->
         Next_pc(IF w.ret = 0 THEN [w EXCEPT !.ctrl[id].cur = w.ctrl[id].val] ELSE w,
                 "unlock")

ConcCalls ==
  {[pc |-> "lock", name |-> "set_stream", arg |-> e, val |-> 0] : e \in BOOLEAN}
  \cup {[pc |-> "lock", name |-> "set_fmt",
         arg |-> <<IMAGE_PAD, V4L2_SUBDEV_FORMAT_ACTIVE,
                   Fmt(sz[1], sz[2], MEDIA_BUS_FMT_SGRBG10_1X10)>>, val |-> 0] :
           sz \in ReqSizes}
  \cup {[pc |-> "lock", name |-> "s_ctrl", arg |-> "vblank", val |-> v] :
           v \in CtrlVals("vblank")}

InCall(t) == thr[t].pc \notin {"idle", "lock"}

(* a caller enters an entry point *)
Call(t) ==
  /\ phase = "bound" /\ thr[t].pc = "idle"
  /\ \E c \in ConcCalls : thr' = [thr EXCEPT ![t] = c]
  /\ UNCHANGED <<ar0234, ctrl, pm, hw, dev, sd_state, board, phase, mutex, lockdep,
                 log, ret, reply, lastOp>>

(* mutex_lock *)
Lock(t) ==
  /\ thr[t].pc = "lock" /\ ~mutex_is_locked(mutex)
  /\ thr' = [thr EXCEPT ![t].pc = "b1"]
  /\ CommitWorld([mutex_lock(StepWorld) EXCEPT !.log = <<>>, !.ret = 0,
                                               !.lockdep = TRUE],
                 [name |-> thr[t].name, arg |-> thr[t].arg])
  /\ UNCHANGED phase

StepTo(t, n) ==
  /\ thr' = [thr EXCEPT ![t].pc = n.pc]
  /\ CommitWorld(n.w, lastOp)
  /\ UNCHANGED phase

StreamOnStep(t) ==
  /\ InCall(t) /\ thr[t].pc # "unlock"
  /\ thr[t].name = "set_stream" /\ thr[t].arg = TRUE
  /\ StepTo(t, ar0234_set_stream_on_step(StepWorld, thr[t].pc))

StreamOffStep(t) ==
  /\ InCall(t) /\ thr[t].pc # "unlock"
  /\ thr[t].name = "set_stream" /\ thr[t].arg = FALSE
  /\ StepTo(t, ar0234_set_stream_off_step(StepWorld, thr[t].pc))

SetPadFormatStep(t) ==
  /\ InCall(t) /\ thr[t].pc # "unlock"
  /\ thr[t].name = "set_fmt"
  /\ StepTo(t, ar0234_set_pad_format_step(StepWorld, thr[t].pc, thr[t].arg[3]))

SetCtrlStep(t) ==
  /\ InCall(t) /\ thr[t].pc # "unlock"
  /\ thr[t].name = "s_ctrl"
  /\ StepTo(t, ar0234_set_ctrl_step(StepWorld, thr[t].pc, thr[t].arg, thr[t].val))

(* mutex_unlock and the return to the caller *)
Unlock(t) ==
  /\ thr[t].pc = "unlock"
  /\ thr' = [thr EXCEPT ![t] = Idle]
  /\ CommitWorld(mutex_unlock(StepWorld), lastOp)
  /\ UNCHANGED phase

(* the PM core suspends an idle device; it does not take the device mutex *)
SuspendConc ==
  /\ phase = "bound"
  /\ pm.enabled /\ pm.status = "active" /\ pm.usage = 0
  /\ CommitWorld([ar0234_power_off(StepWorld) EXCEPT !.pm.status = "suspended",
                                                    !.ret = ret],
                 lastOp)
  /\ UNCHANGED <<phase, thr>>

NextConc ==
  \/ ProbeOk
  \/ \E t \in Threads :
        \/ Call(t) \/ Lock(t) \/ StreamOnStep(t) \/ StreamOffStep(t)
        \/ SetPadFormatStep(t) \/ SetCtrlStep(t) \/ Unlock(t)
  \/ SuspendConc

SpecConc == InitOf({[chip |-> AR0234_CHIP_ID, lanes |-> 2]}) /\ [][NextConc]_vars

(* The replayed controls: exposure, gains, vblank and flips set while the   *)
(* sensor is suspended, in standby or streaming, and fault-free starts     *)
ReplayCtrls == {"vblank", "exposure", "again", "dgain", "hflip", "vflip"}

SetCtrlReplay == SetCtrlOf(ReplayCtrls, {0})

NextReplay == ProbeOk \/ SetCtrlReplay \/ StreamOnOk \/ StreamOff \/ RuntimeSuspend

SpecReplay ==
  InitOf({[chip |-> AR0234_CHIP_ID, lanes |-> 2]}) /\ [][NextReplay]_vars

(* The power references: starts with every fault of the resume and of the  *)
(* programming, repeated starts and stops, and sets of vblank and exposure *)
(* with a bus that works or fails, in standby and while streaming          *)
NextPower == ProbeOk \/ StreamOn \/ StreamOff \/ SetCtrlTiming \/ RuntimeSuspend

SpecPower == InitOf({[chip |-> AR0234_CHIP_ID, lanes |-> 2]}) /\ [][NextPower]_vars

(* The test pattern controls, in standby and while streaming, with a bus   *)
(* that works or is dead.                                                  *)
TestPatternCtrls == {"test_pattern", "tp_red", "tp_greenr", "tp_blue", "tp_greenb"}

SetCtrlTestPattern == SetCtrlOf(TestPatternCtrls, {0, 0 - 1})

NextTestPattern == ProbeOk \/ SetCtrlTestPattern \/ StreamOnOk \/ StreamOff
                     \/ RuntimeSuspend

SpecTestPattern ==
  InitOf({[chip |-> AR0234_CHIP_ID, lanes |-> 2]}) /\ [][NextTestPattern]_vars

(* The timing limits: active format changes and vblank sets, in standby    *)
(* and while streaming, with a bus that works, fails once or is dead.      *)
SetPadFormatTiming ==
  SetPadFormatOf({IMAGE_PAD} \X {V4L2_SUBDEV_FORMAT_ACTIVE} \X
                   {Fmt(sz[1], sz[2], c) : sz \in ReqSizes,
                      c \in {MEDIA_BUS_FMT_SGRBG10_1X10, MEDIA_BUS_FMT_SGRBG8_1X8}},
                 {0, 0 - 1})

SetCtrlVblank == SetCtrlOf({"vblank"}, {0, 1})

NextTiming == ProbeOk \/ SetPadFormatTiming \/ SetCtrlVblank \/ StreamOnOk
                \/ StreamOff \/ RuntimeSuspend

SpecTiming == InitOf({[chip |-> AR0234_CHIP_ID, lanes |-> 2]}) /\ [][NextTiming]_vars

TypeOK ==
  /\ phase \in {"unbound", "bound"}
  /\ ar0234.streaming \in BOOLEAN
  /\ pm.usage \in 0..2
  /\ mutex = FALSE

----------------------------------------------------------------------------
(* Properties *)

(* the register writes of an event log, as <<register, value>> pairs *)
RECURSIVE WritesOf(_)
WritesOf(l) ==
  IF l = <<>> THEN <<>>
  ELSE IF Head(l).op = "write"
       THEN <<<<Head(l).reg, Head(l).val>>>> \o WritesOf(Tail(l))
       ELSE WritesOf(Tail(l))

(* the register writes a register table asks for: every entry but the delays *)
RECURSIVE TableWrites(_)
TableWrites(regs) ==
  IF regs = <<>> THEN <<>>
  ELSE IF Head(regs).address = DELAY THEN TableWrites(Tail(regs))
       ELSE <<<<Head(regs).address, Head(regs).val>>>> \o TableWrites(Tail(regs))

IsPrefix(p, q) == Len(p) <= Len(q) /\ SubSeq(q, 1, Len(p)) = p

IsAccess(e) == e.op \in {"read", "write"}
PowerOps(l) == {i \in 1..Len(l) : l[i].op \in {"regulator", "clk", "gpio"}}
Accesses(l) == {i \in 1..Len(l) : IsAccess(l[i])}

StartCall    == lastOp.name = "set_stream" /\ lastOp.arg = TRUE
StopCall     == lastOp.name = "set_stream" /\ lastOp.arg = FALSE
ActiveSetFmt == lastOp.name = "set_fmt" /\ lastOp.arg[1] = IMAGE_PAD
                  /\ lastOp.arg[2] = V4L2_SUBDEV_FORMAT_ACTIVE
FlipCall     == lastOp.name = "s_ctrl" /\ lastOp.arg \in {"hflip", "vflip"}
FlipsGrabbed == ctrl["hflip"].grabbed /\ ctrl["vflip"].grabbed
FlipsFree    == ~ctrl["hflip"].grabbed /\ ~ctrl["vflip"].grabbed

(* C1: an active set_format on the image pad issued while streaming is     *)
(* rejected with -EBUSY and changes neither the format, the code nor any   *)
(* control limit.  The code has no such check: the formula is violated.    *)
C1_SetFmtBusyWhileStreaming ==
  [][(ar0234.streaming /\ ActiveSetFmt')
       => (ret' = EBUSY /\ ar0234' = ar0234 /\ ctrl' = ctrl)]_vars

(* C2: in every reachable state both flip controls are grabbed exactly     *)
(* when the streaming flag is set, and a flip change is refused with       *)
(* -EBUSY while streaming and accepted (0, value current) in standby.      *)
C2_FlipsGrabbedIffStreaming ==
  /\ ctrl["hflip"].grabbed = ar0234.streaming
  /\ ctrl["vflip"].grabbed = ar0234.streaming
  /\ FlipCall =>
       IF ar0234.streaming THEN ret = EBUSY
       ELSE ret = 0 /\ ctrl[lastOp.arg].cur = ctrl[lastOp.arg].val

C2_Witness ==
  /\ FlipCall /\ ar0234.streaming /\ ret = EBUSY /\ FlipsGrabbed

(* C3: a start that succeeds from standby writes, in this order, the reset *)
(* sequence, the PLL and MIPI sequences, the lane count, the common        *)
(* initialisation, the format sequence, the controls and last the          *)
(* stream-on command.  The code starts with the common initialisation: the *)
(* formula is violated.                                                    *)
C3_StartWriteOrder ==
  (StartCall /\ ret = 0 /\ log # <<>>) =>
     LET W   == WritesOf(log)
         pre == TableWrites(ar0234_reset)
                  \o TableWrites(ar0234_pll_config_24_900_10bit)
                  \o TableWrites(ar0234_mipi_config_24_900_10bit)
                  \o <<<<AR0234_REG_SERIAL_FORMAT, 512 + board.lanes>>>>
                  \o TableWrites(common_init)
                  \o TableWrites(ar0234_formats_24_900[ar0234.mode.format].reg_sequence)
     IN  /\ IsPrefix(pre, W)
         /\ Len(W) > Len(pre)
         /\ W[Len(W)] = <<AR0234_REG_RESET, AR0234_REG_RESET_STREAM_ON>>

(* C4: once a register access of a start has failed, the call writes no    *)
(* further register, the stream-on command included.  A failed exposure    *)
(* write inside the vblank replay is dropped and the start goes on: the    *)
(* formula is violated.                                                    *)
C4_NoWriteAfterFailedWrite ==
  StartCall =>
    \A i \in Accesses(log) : \A j \in Accesses(log) :
       (i < j /\ ~log[i].ok) => log[j].op # "write"

C6_SameStateIsNoOp ==
  [][(lastOp'.name = "set_stream" /\ phase = "bound"
        /\ lastOp'.arg = ar0234.streaming)
       => (ret' = 0 /\ log' = <<>>
           /\ UNCHANGED <<ar0234, ctrl, pm, hw, dev, sd_state>>)]_vars

C6_Witness == StartCall /\ ar0234.streaming /\ ret = 0 /\ log = <<>>

(* C7: a stop issued while streaming returns 0 and ends in standby whether *)
(* or not the stream-off write succeeds: flag cleared, flips free, the     *)
(* streaming power reference dropped.                                      *)
C7_StopAlwaysStandby ==
  [][(ar0234.streaming /\ StopCall')
       => (ret' = 0 /\ ~ar0234'.streaming /\ FlipsFree'
           /\ pm'.usage = pm.usage - 1 /\ pm'.usage = 0)]_vars

C7_Witness ==
  /\ StopCall /\ ret = 0 /\ ~ar0234.streaming /\ FlipsFree
  /\ log = <<Ev("write", AR0234_REG_RESET, AR0234_REG_RESET_STREAM_OFF, FALSE)>>

(* the (extclk, link frequency) pairs of the documentation *)
SupportedLinks == {<<AR0234_FREQ_LINK_10BIT>>, <<AR0234_FREQ_LINK_8BIT>>}
ProbeCall == lastOp.name = "probe"

(* C8: a bring-up whose link frequency or extclk is not supported fails    *)
(* with -EINVAL before any power step and any register access.  When the   *)
(* endpoint cannot be parsed the check is skipped and the bring-up goes    *)
(* on: the formula is violated.                                            *)
C8_UnsupportedConfigFailsFirst ==
  (ProbeCall /\ Len(lastOp.arg.links) = 1
     /\ (lastOp.arg.links \notin SupportedLinks
           \/ lastOp.arg.extclk # AR0234_FREQ_EXTCLK))
    => (ret = EINVAL /\ phase = "unbound"
        /\ PowerOps(log) = {} /\ Accesses(log) = {})

(* C9: with the 450 MHz link the active code is always the 10-bit one and  *)
(* the data format register is only ever programmed for 10 bits.  An       *)
(* active set_fmt with an 8-bit code is accepted: the formula is violated. *)
C9_TenBitOnlyAt450MHz ==
  phase = "bound" =>
    /\ ar0234.fmt.code \in {MEDIA_BUS_FMT_SGRBG10_1X10, MEDIA_BUS_FMT_Y10_1X10}
    /\ dev[AR0234_REG_OUTPUT_DEPTH] \in {0, 2570}

(* C10: with extclk 24 MHz, 2 or 4 lanes and an endpoint that parses, the  *)
(* hardware configuration check passes for the link frequencies 450 MHz    *)
(* and 360 MHz and fails for every other one.  The code refuses 360 MHz:   *)
(* the formula is violated.                                                *)
C10_LinkFrequencies450And360 ==
  (ProbeCall /\ lastOp.arg.err = "none" /\ lastOp.arg.lanes \in {2, 4}
     /\ lastOp.arg.extclk = AR0234_FREQ_EXTCLK /\ Len(lastOp.arg.links) = 1)
    => ((ret = EINVAL /\ log = <<>>) <=> lastOp.arg.links \notin SupportedLinks)

----------------------------------------------------------------------------
(* Power sequencing *)

PowerEv(op, val, ok) == Ev(op, 0, val, ok)
AllOff == ~hw.rails /\ ~hw.clk /\ ~hw.reset

(* the call began by powering the sensor up: bring-up or a resuming start *)
PowerOnCall == log # <<>> /\ log[1].op = "regulator" /\ log[1].val = 1

C12_PowerOffOrder ==
  lastOp.name = "runtime_suspend" =>
    /\ log = << PowerEv("gpio", 0, TRUE), PowerEv("clk", 0, TRUE),
                PowerEv("regulator", 0, TRUE) >>
    /\ ret = 0 /\ AllOff /\ pm.status = "suspended"

----------------------------------------------------------------------------
(* Chip identification *)

KnownChipIds == {AR0234_CHIP_ID, AR0234_CHIP_ID_MONO}

(* the bring-up reached ar0234_identify_module: its fifth event, after the *)
(* four of power_on, is the read of the chip id register                   *)
IdentifyRead ==
  /\ ProbeCall /\ Len(log) >= 5
  /\ log[5].op = "read" /\ log[5].reg = AR0234_REG_CHIP_ID

(* the bring-up went on past the identification to the stream-on write *)
IdentifyOk == Len(log) >= 6 /\ log[6].op = "write"

(* C13: identification succeeds exactly when the chip id read succeeds and *)
(* returns 0x0A56 or 0x1A56, any other outcome fails the bring-up with the *)
(* sensor powered off again, and in every state after bring-up the         *)
(* monochrome flag is set exactly when the sensor's id is 0x1A56.          *)
C13_IdentifyAndMonoFlag ==
  /\ IdentifyRead =>
       /\ IdentifyOk <=> (log[5].ok /\ log[5].val \in KnownChipIds)
       /\ ~IdentifyOk => (ret = EIO /\ phase = "unbound" /\ AllOff)
  /\ phase = "bound" =>
       /\ board.chip \in KnownChipIds
       /\ ar0234.monochrome <=> (board.chip = AR0234_CHIP_ID_MONO)

C13_Witness ==
  /\ IdentifyRead /\ IdentifyOk /\ log[5].val = AR0234_CHIP_ID_MONO
  /\ phase = "bound" /\ ar0234.monochrome

----------------------------------------------------------------------------
(* Format selection *)

SetFmtCall(pad, which) ==
  lastOp.name = "set_fmt" /\ lastOp.arg[1] = pad /\ lastOp.arg[2] = which
ImageSetFmt == lastOp.name = "set_fmt" /\ lastOp.arg[1] = IMAGE_PAD

SizeError(i, wd, ht) ==
  Abs(ar0234_formats_24_900[i].width - wd) + Abs(ar0234_formats_24_900[i].height - ht)

(* the earliest table entry among those nearest to the requested size *)
FirstNearest(wd, ht) ==
  CHOOSE i \in 1..Len(ar0234_formats_24_900) :
    /\ \A j \in 1..Len(ar0234_formats_24_900) : SizeError(i, wd, ht) <= SizeError(j, wd, ht)
    /\ \A j \in 1..(i - 1) : SizeError(j, wd, ht) > SizeError(i, wd, ht)

(* C14: a set_fmt on the image pad never fails and echoes the size of a    *)
(* table entry that depends on the requested size alone: the entry nearest *)
(* to the request and, among equally near ones, the earliest of the table; *)
(* 1920x1200 selects the 1920x1200 entry.  Of two equally near entries the *)
(* code selects the later one: the formula is violated.                    *)
C14_NearestFormatFirstWins ==
  ImageSetFmt =>
    /\ ret = 0
    /\ \E i \in 1..Len(ar0234_formats_24_900) :
         /\ reply.width = ar0234_formats_24_900[i].width
         /\ reply.height = ar0234_formats_24_900[i].height
    /\ LET i == FirstNearest(lastOp.arg[3].width, lastOp.arg[3].height)
       IN  /\ reply.width = ar0234_formats_24_900[i].width
           /\ reply.height = ar0234_formats_24_900[i].height
    /\ (lastOp.arg[3].width = 1920 /\ lastOp.arg[3].height = 1200)
         => (reply.width = 1920 /\ reply.height = 1200)

----------------------------------------------------------------------------
(* Timing limits *)

CurFormat == ar0234_formats_24_900[ar0234.mode.format]
CurTiming == CurFormat.timing[ar0234.hw_config.lane_mode][ar0234.mode.bit_depth]

(* C15: after an active format change the vblank limits satisfy            *)
(* minimum <= default <= maximum with maximum = 0xFFFF - height of the     *)
(* current format, and the vblank value lies inside the range.  A format   *)
(* change is accepted while streaming (C1) and the results of the vblank   *)
(* updates are dropped: with a dead bus the value stays below the new      *)
(* minimum, and the formula is violated.                                   *)
C15_VblankLimits ==
  ActiveSetFmt =>
    /\ ctrl["vblank"].minimum <= ctrl["vblank"].def
    /\ ctrl["vblank"].def <= ctrl["vblank"].maximum
    /\ ctrl["vblank"].maximum = AR0234_VTS_MAX - CurFormat.height
    /\ ctrl["vblank"].minimum <= ctrl["vblank"].cur
    /\ ctrl["vblank"].cur <= ctrl["vblank"].maximum

VblankSet == lastOp.name = "s_ctrl" /\ lastOp.arg = "vblank"

(* C16: a vblank set that succeeds makes v the vblank value and installs   *)
(* exposure maximum = height + v - exposure minimum, the minimum being     *)
(* AR0234_EXPOSURE_MIN, and leaves the exposure value at or below the new  *)
(* maximum.  The failure of the exposure write that clamps the value is    *)
(* dropped and the vblank set goes on: the formula is violated.            *)
C16_VblankSetsExposureMax ==
  (VblankSet /\ ret = 0) =>
    /\ ctrl["vblank"].cur = ctrl["vblank"].val
    /\ ctrl["exposure"].minimum = AR0234_EXPOSURE_MIN
    /\ ctrl["exposure"].maximum =
         CurFormat.height + ctrl["vblank"].val - ctrl["exposure"].minimum
    /\ ctrl["exposure"].cur <= ctrl["exposure"].maximum

(* C17: in every state after bring-up the timing limits are those of the   *)
(* current format and of the vblank value in force: the vblank range and   *)
(* the hblank value are derived from the format's timing, and the exposure *)
(* maximum is height + vblank - AR0234_EXPOSURE_MIN.  The hblank value is  *)
(* never stored during bring-up and a failed VTS write leaves the exposure *)
(* maximum of the rejected vblank: the formula is violated.                *)
C17_TimingLimitsConsistent ==
  phase = "bound" =>
    /\ ctrl["vblank"].minimum =
         CurTiming.frame_length_lines_min - CurFormat.height
    /\ ctrl["vblank"].maximum = AR0234_VTS_MAX - CurFormat.height
    /\ ctrl["hblank"].cur = CurTiming.line_length_pck - CurFormat.width
    /\ ctrl["exposure"].maximum =
         CurFormat.height + ctrl["vblank"].cur - AR0234_EXPOSURE_MIN

----------------------------------------------------------------------------
(* Trial and active context *)

(* the codes of the sensor variant, of either Bayer order *)
SupportedCodes ==
  {(IF ar0234.monochrome THEN mono_codes ELSE bayer_codes)[i] :
     i \in 1..Len(IF ar0234.monochrome THEN mono_codes ELSE bayer_codes)}

TrySetFmt(pad) == SetFmtCall(pad, V4L2_SUBDEV_FORMAT_TRY)

(* C18: a set_fmt in TRY context returns 0 and changes neither the device  *)
(* object (mode, active format code, bit depth, streaming), nor a control, *)
(* nor the power and runtime PM state, nor a register, and makes no bus    *)
(* access; its echo is the TRY format it stored in the file handle, which  *)
(* on the image pad has the size of the nearest table entry and a          *)
(* supported code.                                                         *)
C18_TrySetFmtNoDeviceEffect ==
  [][(lastOp'.name = "set_fmt" /\ lastOp'.arg[2] = V4L2_SUBDEV_FORMAT_TRY) =>
       /\ ret' = 0
       /\ ar0234' = ar0234 /\ ctrl' = ctrl
       /\ dev' = dev /\ hw' = hw /\ pm' = pm
       /\ log' = <<>>
       /\ reply' = sd_state'.fmt[lastOp'.arg[1]]
       /\ lastOp'.arg[1] = IMAGE_PAD =>
            /\ \E i \in 1..Len(ar0234_formats_24_900) :
                  /\ reply'.width = ar0234_formats_24_900[i].width
                  /\ reply'.height = ar0234_formats_24_900[i].height
                  /\ \A j \in 1..Len(ar0234_formats_24_900) :
                        SizeError(i, lastOp'.arg[3].width, lastOp'.arg[3].height)
                          <= SizeError(j, lastOp'.arg[3].width, lastOp'.arg[3].height)
            /\ reply'.code \in SupportedCodes
     ]_vars

(* a TRY set_fmt on the image pad of a streaming sensor that asks for a    *)
(* size and a code other than the active ones                              *)
C18_Witness ==
  /\ TrySetFmt(IMAGE_PAD)
  /\ ar0234.streaming
  /\ sd_state.fmt[IMAGE_PAD].width # CurFormat.width
  /\ sd_state.fmt[IMAGE_PAD].code # ar0234.fmt.code

(* C19: get_fmt on the metadata pad returns 0 and the one embedded data    *)
(* format, AR0234_EMBEDDED_LINE_WIDTH x AR0234_NUM_EMBEDDED_LINES with the *)
(* sensor data code, in ACTIVE and in TRY context, whatever the image      *)
(* format is and whatever an earlier set_fmt on the pad asked for.  A TRY  *)
(* set_fmt on the pad stores the caller's size and the TRY get_fmt         *)
(* returns it: the formula is violated.                                    *)
C19_MetadataPadConstant ==
  (lastOp.name = "get_fmt" /\ lastOp.arg[1] = METADATA_PAD) =>
    /\ ret = 0
    /\ reply = Fmt(AR0234_EMBEDDED_LINE_WIDTH, AR0234_NUM_EMBEDDED_LINES,
                   MEDIA_BUS_FMT_SENSOR_DATA)
    /\ reply.width = 2400 /\ reply.height = 2

(* the active format of the image pad: the size of the current table entry *)
(* and the active code                                                     *)
ActiveFormat == Fmt(CurFormat.width, CurFormat.height, ar0234.fmt.code)

(* C20: an active set_fmt on the image pad echoes the active format it     *)
(* leaves behind; get_fmt(ACTIVE) on the image pad returns that active     *)
(* format and get_selection(CROP, ACTIVE) the crop rectangle of its table  *)
(* entry, with origin (6, 10) for 1920x1200; and between two active        *)
(* set_fmt calls on the image pad no operation of a bound device (TRY      *)
(* set_fmt, metadata set_fmt, get, open, start, stop, suspend) changes the *)
(* current table entry or the active code.                                 *)
C20_GetReturnsActiveSetFmt ==
  /\ []((SetFmtCall(IMAGE_PAD, V4L2_SUBDEV_FORMAT_ACTIVE)
           \/ (lastOp.name = "get_fmt"
                 /\ lastOp.arg = <<IMAGE_PAD, V4L2_SUBDEV_FORMAT_ACTIVE>>))
          => (ret = 0 /\ reply = ActiveFormat))
  /\ []((lastOp.name = "get_selection"
           /\ lastOp.arg = <<"CROP", V4L2_SUBDEV_FORMAT_ACTIVE>>)
          => /\ ret = 0
             /\ reply = CurFormat.crop
             /\ reply.width = ActiveFormat.width
             /\ reply.height = ActiveFormat.height
             /\ ActiveFormat.width = 1920 => (reply.left = 6 /\ reply.top = 10))
  /\ [][(phase = "bound"
          /\ ~(lastOp'.name = "set_fmt" /\ lastOp'.arg[1] = IMAGE_PAD
                /\ lastOp'.arg[2] = V4L2_SUBDEV_FORMAT_ACTIVE))
         => (ar0234'.mode.format = ar0234.mode.format
             /\ ar0234'.fmt.code = ar0234.fmt.code)]_vars

(* a get_fmt(ACTIVE) on the image pad that returns a format set by an      *)
(* active set_fmt (1280x800, 8 bit) while the TRY format of the open file  *)
(* handle was set to another size with the same code                       *)
C20_Witness ==
  /\ lastOp.name = "get_fmt"
  /\ lastOp.arg = <<IMAGE_PAD, V4L2_SUBDEV_FORMAT_ACTIVE>>
  /\ reply.width = 1280 /\ reply.height = 800
  /\ reply.code \in ReqCodes
  /\ sd_state.open
  /\ sd_state.fmt[IMAGE_PAD].width = 1920
  /\ sd_state.fmt[IMAGE_PAD].code = reply.code

----------------------------------------------------------------------------
(* Test pattern controls *)

TestPatternRegs == {AR0234_REG_TEST_PATTERN, AR0234_REG_TESTP_RED,
                    AR0234_REG_TESTP_GREENR, AR0234_REG_TESTP_BLUE,
                    AR0234_REG_TESTP_GREENB}

TestPatternSet == lastOp.name = "s_ctrl" /\ lastOp.arg \in TestPatternCtrls

(* C21: a set of the test pattern menu or of a test pattern colour returns *)
(* 0, keeps the value and makes no bus access, in standby and while        *)
(* streaming; no call, a start with its replay of the controls included,   *)
(* accesses a test pattern register, and a register the model tracks is    *)
(* left as it was by the set.                                              *)
C21_TestPatternInert ==
  /\ [](TestPatternSet =>
          /\ ret = 0
          /\ log = <<>>
          /\ ctrl[lastOp.arg].cur = ctrl[lastOp.arg].val)
  /\ [](\A i \in 1..Len(log) : log[i].reg \notin TestPatternRegs)
  /\ [][(lastOp'.name = "s_ctrl" /\ lastOp'.arg \in TestPatternCtrls)
          => (dev' = dev /\ hw' = hw /\ pm' = pm /\ ar0234' = ar0234)]_vars

(* a start that replays a test pattern menu and a red colour the user      *)
(* changed from their defaults                                             *)
C21_Witness ==
  /\ lastOp.name = "set_stream" /\ lastOp.arg = TRUE /\ ret = 0
  /\ ar0234.streaming
  /\ ctrl["test_pattern"].cur = 2
  /\ ctrl["tp_red"].cur = 0

----------------------------------------------------------------------------
(* Register lists *)

(* the entry of regs at which the n-th write is made, 0 when regs has      *)
(* fewer than n writes (or n = 0: no write fails)                          *)
NthWrite(regs, n) ==
  LET at == {i \in 1..Len(regs) :
               /\ regs[i].address # DELAY
               /\ Cardinality({j \in 1..i : regs[j].address # DELAY}) = n}
  IN  IF at = {} THEN 0 ELSE CHOOSE i \in at : TRUE

(* C22: ar0234_write_regs handles the entries in list order, one bus       *)
(* access or one sleep per entry: an entry with the DELAY address is a     *)
(* sleep of its value in milliseconds and never a bus write, any other     *)
(* entry is one write of its value to its address; the call returns 0      *)
(* after the last entry, or the error of the first failing write, after    *)
(* which no entry is written or slept and the failed one is not repeated.  *)
C22_WriteRegsInOrder ==
  lastOp.name = "write_regs" =>
    LET regs == lastOp.arg[1]
        k    == NthWrite(regs, lastOp.arg[2])
        last == IF k = 0 THEN Len(regs) ELSE k
    IN  /\ ret = (IF k = 0 THEN 0 ELSE EIO)
        /\ Len(log) = last
        /\ \A i \in 1..last :
              log[i] = IF regs[i].address = DELAY
                       THEN Ev("sleep", 0, regs[i].val * 1000, TRUE)
                       ELSE Ev("write", regs[i].address, regs[i].val, i # k)
        /\ \A i \in 1..Len(log) : log[i].op = "write" => log[i].reg # DELAY

(* the reset list whose first write fails: the second delay and the last   *)
(* write are not reached                                                   *)
C22_Witness ==
  /\ lastOp.name = "write_regs"
  /\ lastOp.arg = <<ar0234_reset, 1>>
  /\ ret = EIO
  /\ Len(log) = 2 /\ log[1].op = "sleep" /\ ~log[2].ok

----------------------------------------------------------------------------
(* Failures in steady state *)

(* the value, the range and the default of every control *)
CtrlState(c) ==
  [id \in CtrlIds |-> <<c[id].cur, c[id].minimum, c[id].maximum, c[id].def>>]

(* C23: a control set that returns an error changes neither a control's    *)
(* value or range nor the device object.  A vblank set whose VTS write     *)
(* fails has already installed the exposure range of the rejected vblank:  *)
(* the formula is violated.                                                *)
C23_FailedCtrlSetNoEffect ==
  [][(lastOp'.name = "s_ctrl" /\ ret' # 0) =>
       (CtrlState(ctrl') = CtrlState(ctrl) /\ ar0234' = ar0234)]_vars

(* C24: an active set_fmt on the image pad that keeps the size and changes *)
(* the code alone leaves the vblank value as it was.  Every change of the  *)
(* format or of the code runs ar0234_set_framing_limits, which sets vblank *)
(* to its default: the formula is violated.                                *)
C24_CodeChangeKeepsVblank ==
  [][(/\ phase = "bound"
      /\ lastOp'.name = "set_fmt" /\ lastOp'.arg[1] = IMAGE_PAD
      /\ lastOp'.arg[2] = V4L2_SUBDEV_FORMAT_ACTIVE
      /\ ar0234'.mode.format = ar0234.mode.format
      /\ ar0234'.fmt.code # ar0234.fmt.code)
     => ctrl'["vblank"].cur = ctrl["vblank"].cur]_vars

----------------------------------------------------------------------------
(* Bring-up failures *)

LogCount(P(_)) == Cardinality({i \in 1..Len(log) : P(log[i])})

(* a bring-up that powered the sensor and then failed *)
ProbeFailedPowered ==
  /\ lastOp.name = "probe" /\ ret # 0
  /\ Len(log) >= 4 /\ log[1].ok /\ log[2].ok /\ log[3] = PowerEv("gpio", 1, TRUE)

(* the bring-up got as far as ar0234_init_controls: both mode toggle       *)
(* writes succeeded                                                        *)
ProbeReachedControls ==
  LogCount(LAMBDA e : e.op = "write" /\ e.reg = AR0234_REG_RESET /\ e.ok) = 2

(* C25: a bring-up that fails after power_on succeeded (chip id, a mode    *)
(* toggle write, the controls, the pads or the registration) ends with the *)
(* three steps of power_off, each made once, as its last three steps; it   *)
(* frees the control handler once, before power_off, when the bring-up had *)
(* reached ar0234_init_controls, and never otherwise; it returns an error  *)
(* and leaves the device unbound, unpowered and with runtime PM disabled.  *)
C25_ProbeFailureUnwinds ==
  ProbeFailedPowered =>
    /\ phase = "unbound" /\ AllOff /\ ~pm.enabled
    /\ \A id \in CtrlIds : ctrl[id] = NoCtrl
    /\ Len(log) >= 7
    /\ {log[Len(log) - 2], log[Len(log) - 1], log[Len(log)]}
         = {PowerEv("gpio", 0, TRUE), PowerEv("regulator", 0, TRUE),
            PowerEv("clk", 0, TRUE)}
    /\ LogCount(LAMBDA e : e.op = "gpio" /\ e.val = 0) = 1
    /\ LogCount(LAMBDA e : e.op = "regulator" /\ e.val = 0) = 1
    /\ LogCount(LAMBDA e : e.op = "clk" /\ e.val = 0) = 1
    /\ LogCount(LAMBDA e : e.op = "ctrl_free")
         = (IF ProbeReachedControls THEN 1 ELSE 0)
    /\ \A i \in 1..Len(log) : log[i].op = "ctrl_free" => i < Len(log) - 2

(* a bring-up that fails at the pads or at the registration, after the     *)
(* controls were created and their limits written                          *)
C25_Witness ==
  /\ ProbeFailedPowered /\ ProbeReachedControls
  /\ LogCount(LAMBDA e : e.op = "write" /\ e.reg = AR0234_REG_VTS /\ e.ok) >= 1
  /\ LogCount(LAMBDA e : e.op = "ctrl_free") = 1

----------------------------------------------------------------------------
(* Serialisation of the entry points *)

BusEvents(l) == Cardinality({i \in 1..Len(l) : l[i].op \in {"read", "write"}})

(* a start that programmed the sensor has reached its mutex_unlock *)
StartDone(t) ==
  /\ thr[t].pc = "unlock" /\ thr[t].name = "set_stream" /\ thr[t].arg = TRUE
  /\ ret = 0 /\ log # <<>>

(* C26: at most one caller is between mutex_lock and mutex_unlock, and the *)
(* mutex is held exactly then; a step that changes the device object or a  *)
(* control, or that accesses the bus, is a step of that caller; and when a *)
(* start is done, the mode registers it wrote are those of the current     *)
(* format, in list order, and the one frame length it wrote is the height  *)
(* of that format plus the current vblank.                                 *)
C26_OneMutationInFlight ==
  /\ [](\A t1, t2 \in Threads : (InCall(t1) /\ InCall(t2)) => t1 = t2)
  /\ [](mutex <=> \E t \in Threads : InCall(t))
  /\ [](lockdep)
  /\ [][(phase = "bound"
          /\ (ar0234' # ar0234 \/ CtrlState(ctrl') # CtrlState(ctrl)
                \/ BusEvents(log') > BusEvents(log)))
         => \E t \in Threads :
              /\ InCall(t) /\ mutex /\ thr'[t] # thr[t]
              /\ \A u \in Threads \ {t} : ~InCall(u) /\ thr'[u] = thr[u]]_vars
  /\ [](\A t \in Threads : StartDone(t) =>
          /\ \E i \in 1..Len(log) :
                SubSeq(log, i, i + Len(CurFormat.reg_sequence) - 1)
                  = [k \in 1..Len(CurFormat.reg_sequence) |->
                       Ev("write", CurFormat.reg_sequence[k].address,
                          CurFormat.reg_sequence[k].val, TRUE)]
          /\ \A i \in 1..Len(log) :
                (log[i].op = "write" /\ log[i].reg = AR0234_REG_VTS)
                  => log[i].val = CurFormat.height + ctrl["vblank"].cur
          /\ Cardinality({i \in 1..Len(log) :
                            log[i].op = "write" /\ log[i].reg = AR0234_REG_VTS}) = 1)

(* a start is done with the 1280x800 format and a vblank of 500 while the  *)
(* other caller waits for the mutex with a set_fmt of 1920x1200            *)
C26_Witness ==
  \E t, u \in Threads :
    /\ StartDone(t)
    /\ CurFormat.width = 1280 /\ ctrl["vblank"].cur = 500
    /\ thr[u].pc = "lock" /\ thr[u].name = "set_fmt" /\ thr[u].arg[3].width = 1920

----------------------------------------------------------------------------
(* Order and effect of a start *)

(* a write that sets the streaming bit (bit 2) of the reset register *)
StreamEnableWrite(e) ==
  e.op = "write" /\ e.reg = AR0234_REG_RESET /\ (e.val \div 4) % 2 = 1

(* C27: within a start the reset register is written with the streaming    *)
(* bit set (0x205C) only by the last write of the call, after the replay   *)
(* of the controls.  common_init itself writes 0x205C to 0x301A before the *)
(* mode registers and the controls: the formula is violated.               *)
C27_StreamEnableLast ==
  StartCall =>
    \A i \in 1..Len(log) : StreamEnableWrite(log[i]) => i = Len(log)

(* the flip bit of the orientation register the sensor holds *)
FlipBit(bit) == (dev[AR0234_REG_ORIENTATION] \div bit) % 2

(* C28: after a start that ran ar0234_start_streaming (the sensor was not   *)
(* streaming yet) and succeeded, the sensor's exposure, analogue gain and  *)
(* digital gain registers hold the values of their controls, the frame     *)
(* length register holds height + vblank of the current format and the two *)
(* flip bits of the orientation register those of the flip controls,       *)
(* whenever the values were set and although common_init writes 0 to the   *)
(* orientation register.                                                   *)
C28_StartReplaysControls ==
  (StartCall /\ ret = 0 /\ log # <<>>) =>
    /\ ar0234.streaming
    /\ dev[AR0234_REG_EXPOSURE_COARSE] = ctrl["exposure"].cur
    /\ dev[AR0234_REG_ANALOG_GAIN] = ctrl["again"].cur
    /\ dev[AR0234_REG_DIGITAL_GAIN] = ctrl["dgain"].cur
    /\ dev[AR0234_REG_VTS] = CurFormat.height + ctrl["vblank"].cur
    /\ FlipBit(AR0234_REG_ORIENTATION_HFLIP) = ctrl["hflip"].cur
    /\ FlipBit(AR0234_REG_ORIENTATION_VFLIP) = ctrl["vflip"].cur

(* a start from the suspended state that replays an exposure, gains, a     *)
(* vblank and a vertical flip set while the sensor was off                 *)
C28_Witness ==
  /\ StartCall /\ ret = 0 /\ PowerOnCall
  /\ ctrl["exposure"].cur = 1500 /\ ctrl["vblank"].cur = 500
  /\ ctrl["again"].cur = 100 /\ ctrl["dgain"].cur = 512
  /\ ctrl["hflip"].cur = 0 /\ ctrl["vflip"].cur = 1

----------------------------------------------------------------------------
(* Control sets and the power state *)

(* the values written to the frame length register by an event log *)
FrameLengthWrites(l) ==
  SelectSeq(WritesOf(l), LAMBDA p : p[1] = AR0234_REG_VTS)

(* the device is powered for streaming: active and in use *)
InUse == pm.enabled /\ pm.status = "active" /\ pm.usage > 0

(* C29: a set of vblank to a new value while the sensor streams succeeds   *)
(* and writes the frame length register once, with the height of the       *)
(* current format plus the new vblank; a set of any control while the      *)
(* device is not powered for streaming accesses no register, returns 0 and *)
(* makes the requested value the control's current value                   *)
C29_CtrlSetAndPower ==
  [][(lastOp'.name = "s_ctrl") =>
      /\ (ar0234.streaming /\ lastOp'.arg = "vblank"
            /\ ctrl'["vblank"].val # ctrl["vblank"].cur)
           => /\ ret' = 0
              /\ FrameLengthWrites(log')
                   = << <<AR0234_REG_VTS,
                          ar0234_formats_24_900[ar0234.mode.format].height
                            + ctrl'["vblank"].val>> >>
              /\ dev'[AR0234_REG_VTS]
                   = ar0234_formats_24_900[ar0234.mode.format].height
                       + ctrl'["vblank"].val
              /\ ctrl'["vblank"].cur = ctrl'["vblank"].val
      /\ ~InUse
           => /\ log' = <<>> /\ ret' = 0
              /\ ctrl'[lastOp'.arg].cur = ctrl'[lastOp'.arg].val
              /\ dev' = dev]_vars

(* vblank was raised to 500 while streaming, and the frame length register *)
(* holds 1200 + 500                                                        *)
C29_Witness ==
  /\ VblankSet /\ ar0234.streaming /\ ret = 0
  /\ ctrl["vblank"].cur = 500
  /\ FrameLengthWrites(log) = << <<AR0234_REG_VTS, 1700>> >>

(* a gain was set on a device that is powered down: no register access,    *)
(* the control holds the new value                                         *)
C29_WitnessStandby ==
  /\ lastOp.name = "s_ctrl" /\ lastOp.arg = "again" /\ ~InUse /\ ret = 0
  /\ log = <<>> /\ ctrl["again"].cur = 100

----------------------------------------------------------------------------
(* Horizontal blanking and the programmed line length *)

(* the values a register table writes to LINE_LENGTH_PCK *)
LineLengthWrites(regs) ==
  SelectSeq(TableWrites(regs), LAMBDA p : p[1] = LINE_LENGTH_PCK)

(* every timing entry of every format carries the line length that the    *)
(* format's register sequence writes                                       *)
TimingMatchesRegSequence ==
  \A i \in 1..Len(ar0234_formats_24_900) :
    \A l \in {AR0234_LANE_MODE_ID_2, AR0234_LANE_MODE_ID_4} :
      \A b \in {AR0234_BIT_DEPTH_ID_8BIT, AR0234_BIT_DEPTH_ID_10BIT} :
        LineLengthWrites(ar0234_formats_24_900[i].reg_sequence)
          = << <<LINE_LENGTH_PCK,
                 ar0234_formats_24_900[i].timing[l][b].line_length_pck>> >>

(* C30: on a bound device the hblank value plus the width of the current   *)
(* format is the LINE_LENGTH_PCK value that the format's register sequence *)
(* writes, for every format and every timing entry, and a streaming sensor *)
(* holds that value in its LINE_LENGTH_PCK register.  The tables agree,    *)
(* but the hblank value is not stored during bring-up (C17): the formula   *)
(* is violated.                                                            *)
C30_HblankMatchesLineLength ==
  /\ TimingMatchesRegSequence
  /\ phase = "bound" =>
       /\ LineLengthWrites(CurFormat.reg_sequence)
            = << <<LINE_LENGTH_PCK, ctrl["hblank"].cur + CurFormat.width>> >>
       /\ (ar0234.streaming /\ StartCall /\ ret = 0 /\ log # <<>>)
            => dev[LINE_LENGTH_PCK] = ctrl["hblank"].cur + CurFormat.width

----------------------------------------------------------------------------
(* Power references *)

(* C31: in every state the device holds one runtime PM reference when the  *)
(* streaming flag is set and none when it is clear, whatever stream        *)
(* requests, repeated requests, failed resumes and failed starts came      *)
(* before; and a control set returns with the reference count it found     *)
C31_PowerRefsBalanced ==
  /\ [](pm.usage = IF ar0234.streaming THEN 1 ELSE 0)
  /\ [][(lastOp'.name = "s_ctrl") => pm'.usage = pm.usage]_vars

(* a control set on a streaming sensor whose register write failed: the    *)
(* handler took a reference, left by the error path and holds one only     *)
C31_Witness ==
  /\ lastOp.name = "s_ctrl" /\ ar0234.streaming /\ ret = EIO
  /\ \E i \in Accesses(log) : ~log[i].ok
  /\ pm.usage = 1

----------------------------------------------------------------------------
(* Bus accesses and power *)

(* C32: no register is read or written while the sensor is powered off.    *)
(* The bus of the concurrent model never fails, so an access fails exactly *)
(* when the rails, the clock or the reset line were down at the time it    *)
(* was made: every access of bring-up, of a control set, of a start and of *)
(* a stop succeeds, wherever the suspend of the PM core falls between the  *)
(* steps of the callers                                                    *)
C32_NoAccessWhilePoweredOff ==
  \A i \in Accesses(log) : log[i].ok

(* a vblank set on a streaming sensor has written the frame length while   *)
(* the other caller waits for the mutex                                    *)
C32_Witness ==
  \E t \in Threads, u \in Threads :
    /\ thr[t].name = "s_ctrl" /\ thr[t].pc = "b4" /\ thr[u].pc = "lock"
    /\ ar0234.streaming /\ Powered([hw |-> hw])
    /\ \E i \in Accesses(log) : log[i].reg = AR0234_REG_VTS /\ log[i].ok

----------------------------------------------------------------------------
(* Release of the device mutex *)

LockingOps == {"set_stream", "set_fmt", "get_fmt", "open", "get_selection"}

(* C33: when set_stream, set_fmt, get_fmt, open or get_selection has        *)
(* returned, by whatever path, the device mutex is free and the lock       *)
(* assertions of the call held: the next operation can take the mutex      *)
C33_MutexReleased ==
  lastOp.name \in LockingOps => (~mutex_is_locked(mutex) /\ lockdep)

(* a start that failed in the resume and one that failed while programming *)
(* the sensor both left the mutex free; here the second, on an open node   *)
C33_Witness ==
  /\ StartCall /\ ret = EIO /\ ~ar0234.streaming /\ sd_state.open
  /\ ~mutex_is_locked(mutex)
  /\ \E i \in Accesses(log) : ~log[i].ok

----------------------------------------------------------------------------
(* Repeated active set_fmt *)

(* the request resolves to the format entry and the code in force *)
ResolvesToCurrent(fmt) ==
  /\ v4l2_find_nearest_size(ar0234_formats_24_900, fmt.width, fmt.height)
       = ar0234.mode.format
  /\ ar0234_get_format_code(World(0, "none"), fmt.code) = ar0234.fmt.code

(* C34: an active set_fmt on the image pad whose request resolves to the   *)
(* format entry and the code in force returns 0, leaves the device object  *)
(* (mode, code), every control (vblank value and range, hblank, exposure   *)
(* limits) and the registers unchanged and accesses no register; and after *)
(* any active set_fmt the same request resolves to what is in force, so a  *)
(* repeat is such a call                                                   *)
C34_SameFormatIsNoOp ==
  /\ [][(ActiveSetFmt' /\ ResolvesToCurrent(lastOp'.arg[3]))
          => (ret' = 0 /\ log' = <<>>
              /\ UNCHANGED <<ar0234, ctrl, dev, pm, hw, sd_state>>)]_vars
  /\ [](ActiveSetFmt => ResolvesToCurrent(lastOp.arg[3]))

(* the 1280x800 8-bit format was requested again after the user raised     *)
(* vblank to 500: the value is still 500                                   *)
C34_Witness ==
  /\ ActiveSetFmt /\ lastOp.arg[3].width = 1280
  /\ lastOp.arg[3].code = MEDIA_BUS_FMT_SGRBG8_1X8
  /\ ret = 0 /\ log = <<>> /\ ctrl["vblank"].cur = 500
  /\ ctrl["vblank"].minimum = AR0234_VTS_30FPS - 800

----------------------------------------------------------------------------
(* Sign of the horizontal blanking *)

(* line length minus width, for every format and every timing entry *)
HblankValues ==
  {ar0234_formats_24_900[i].timing[l][b].line_length_pck
     - ar0234_formats_24_900[i].width :
       i \in 1..Len(ar0234_formats_24_900),
       l \in {AR0234_LANE_MODE_ID_2, AR0234_LANE_MODE_ID_4},
       b \in {AR0234_BIT_DEPTH_ID_8BIT, AR0234_BIT_DEPTH_ID_10BIT}}

(* C35: on a bound device the hblank of every format and timing entry,     *)
(* line length minus width, is not negative, and neither are the range and *)
(* the value of the hblank control.  Every timing entry has a line length  *)
(* of 612 against widths of 1920 and 1280: the formula is violated.        *)
C35_HblankNonNegative ==
  phase = "bound" =>
    /\ \A h \in HblankValues : h >= 0
    /\ ctrl["hblank"].minimum >= 0 /\ ctrl["hblank"].maximum >= 0
    /\ ctrl["hblank"].cur >= 0

----------------------------------------------------------------------------
(* Geometry of the selection rectangles *)

(* rectangle r lies inside rectangle o *)
Inside(r, o) ==
  /\ r.left >= o.left /\ r.top >= o.top
  /\ r.left + r.width <= o.left + o.width
  /\ r.top + r.height <= o.top + o.height

(* the rectangle get_selection reports for a target in the active context *)
Selection(target) ==
  ar0234_get_selection(World(0, "none"), target, V4L2_SUBDEV_FORMAT_ACTIVE).reply

(* C36: on a bound device the active crop, and the crop of every format    *)
(* entry, lies inside the CROP_BOUNDS rectangle, and the CROP_BOUNDS and   *)
(* CROP_DEFAULT rectangles lie inside the NATIVE_SIZE rectangle.  The      *)
(* native size is 1484x856 and the bounds are 1920x1200 at (6, 10): the    *)
(* formula is violated.                                                    *)
C36_SelectionsNested ==
  phase = "bound" =>
    /\ Inside(Selection("CROP"), Selection("CROP_BOUNDS"))
    /\ \A i \in 1..Len(ar0234_formats_24_900) :
         Inside(ar0234_formats_24_900[i].crop, Selection("CROP_BOUNDS"))
    /\ Inside(Selection("CROP_BOUNDS"), Selection("NATIVE_SIZE"))
    /\ Inside(Selection("CROP_DEFAULT"), Selection("NATIVE_SIZE"))

----------------------------------------------------------------------------
(* The lock assertion of ar0234_get_format_code *)

(* C37: no call of open, get_fmt, set_fmt or enum_frame_size reaches        *)
(* ar0234_get_format_code without the device mutex: the lock assertion     *)
(* holds in every call.  ar0234_enum_frame_size calls it without taking    *)
(* the mutex: the formula is violated.                                     *)
C37_FormatCodeUnderLock ==
  lastOp.name \in {"open", "get_fmt", "set_fmt", "enum_frame_size"} => lockdep

----------------------------------------------------------------------------
(* Bit depth of the mode *)

(* C38: on a bound device mode.bit_depth is the 10-bit id while the active *)
(* code is SGRBG10 or Y10 and the 8-bit id while it is SGRBG8 or Y8, after *)
(* bring-up and after every active set_fmt.  ar0234_get_bit_depth_id       *)
(* stores the index of the code in the code table, which lists the 10-bit  *)
(* code first, while the 8-bit id is 0: the formula is violated.           *)
C38_BitDepthMatchesCode ==
  phase = "bound" =>
    /\ ar0234.fmt.code \in {MEDIA_BUS_FMT_SGRBG10_1X10, MEDIA_BUS_FMT_Y10_1X10}
         => ar0234.mode.bit_depth = AR0234_BIT_DEPTH_ID_10BIT
    /\ ar0234.fmt.code \in {MEDIA_BUS_FMT_SGRBG8_1X8, MEDIA_BUS_FMT_Y8_1X8}
         => ar0234.mode.bit_depth = AR0234_BIT_DEPTH_ID_8BIT
====
